---- MODULE Spec2Model ----
(***************************************************************************)
(* Model of the ECS<Components...>::WithServices<Services...> engine of    *)
(* src/src/ECS/ECS.hpp: the entity, system, service-action and service     *)
(* registries, Sweep(), and the Run / Dispatch / AwaitStop / RequestStop   *)
(* controller.                                                             *)
(***************************************************************************)
EXTENDS Integers, Sequences, FiniteSets, TLC

\* ------------------------------------------------------------------ bounds
\* Caps on the three ID counters (the code's counters are 64-bit and unbounded).
MaxEntities == 2
MaxSystems == 2
MaxServiceActions == 2
\* Number of std::jthread workers that can exist at the same time.
MaxWorkers == 2
\* Largest stop threshold N and largest entity count of the counting scenario.
MaxThreshold == 4
MaxRanked == 3
\* The threshold of the documented end-to-end scenario.
SpecThreshold == 2048

\* ------------------------------------------------------------------ schema
\* ECS<A, B>::WithServices<S, Counter>, plus the built-in manager service.
ComponentTypes == {"A", "B"}
ServiceTypes == {"S", "Counter"}
ManagerService == "ManagerService"
ServiceSlots == ServiceTypes \cup {ManagerService}

\* ------------------------------------------------------------------ declaration
\* Longest type list of a declaration.
MaxTypeList == 3

\* The types a declaration can name, and the tag classes each derives from
\* (class Component, class Service of ECS_Core.hpp). "Both" derives from the two.
TypeNames == ComponentTypes \cup {"S", "Both"}
Bases(t) ==
    CASE t \in ComponentTypes -> {"Component"}
      [] t = "Both" -> {"Component", "Service"}
      [] OTHER -> {"Service"}

\* concept ComponentType / concept ServiceType: the layout and construction
\* requirements hold for every type here, the two derived_from tests decide.
ComponentType(t) == "Component" \in Bases(t) /\ "Service" \notin Bases(t)
ServiceType(t) == "Service" \in Bases(t) /\ "Component" \notin Bases(t)

\* A slip of is_any_from: only the first of the other types is compared.
is_first_from(MainType, OtherTypes) ==
    OtherTypes # <<>> /\ MainType = OtherTypes[1]

\* is_any_from<MainType, OtherTypes...>: std::disjunction over std::is_same.
is_any_from(MainType, OtherTypes) ==
    \E i \in 1..Len(OtherTypes) : MainType = OtherTypes[i]

\* are_distinct<Types...>: the primary template and the one-type specialisation
\* are true; otherwise the head is in none of the others and the others are distinct.
RECURSIVE are_distinct(_)
are_distinct(Types) ==
    IF Len(Types) <= 1
    THEN TRUE
    ELSE ~is_any_from(Head(Types), Tail(Types)) /\ are_distinct(Tail(Types))

\* concept Distinct
Distinct(Types) == are_distinct(Types)

\* template <ComponentType... Components> requires Distinct<Components...> class ECS,
\* template <ServiceType... Services> requires Distinct<Services...> class WithServices.
SchemaAccepted(comps, svcs) ==
    /\ \A i \in 1..Len(comps) : ComponentType(comps[i])
    /\ Distinct(comps)
    /\ \A i \in 1..Len(svcs) : ServiceType(svcs[i])
    /\ Distinct(svcs)

\* The declaration of the engine modelled here.
EngineSchema == [comps |-> <<"A", "B">>, svcs |-> <<"S", "Counter">>, verdict |-> "accepted"]

\* requires AnyFrom<SpecificComponent, Components...>
AnyFromComponents(t) == t \in ComponentTypes

\* A slip of the constraint on the service operations: the manager's slot is let in.
AnyFromServiceSlots(t) == t \in ServiceSlots

\* requires AnyFrom<SpecificService, Services...>
AnyFromServices(t) == t \in ServiceTypes

\* std::nullopt in a std::optional slot; every stored value is >= 0.
Absent == -1
\* The past-the-end iterator of a std::map.
End == -1
\* A default-constructed (or joined) std::jthread: joinable() is false.
NoThread == 0

\* Client threads calling the public interface, and the dispatched workers.
Callers == {1, 2}
Workers == {2 + i : i \in 1..MaxWorkers}
Threads == Callers \cup Workers

VARIABLES
    entities,             \* _entities: EntityID -> row (ComponentTypes -> value or Absent)
    systems,              \* _systems: SystemID -> registered system
    serviceActions,       \* _serviceActions: ServiceActionID -> registered action
    services,             \* _services: ServiceSlots -> value or Absent
    nextEntityID,         \* _nextEntityID
    nextSystemID,         \* _nextSystemID
    nextServiceActionID,  \* _nextServiceActionID
    localContinue,        \* _localContinue
    mainLoop,             \* _mainLoop: the worker it holds, or NoThread
    worker,               \* per worker: its position in the lambda of Dispatch, its stop_token
    pc,                   \* per client thread: the call it is in and where
    sweep,                \* per thread: its position inside Sweep()
    result,               \* per client thread: outcome of its last completed call, and
                          \* the ID it returned if it was an Add*
    lastStop,             \* the last RequestStop(): its return value, and what was active
    schema,               \* the declaration ECS<...>::WithServices<...> and the compiler's verdict
    window,               \* WindowService: _onDrawFrame, _sinceCommit, _msPerFrame, _texturesPushed
    assets,               \* AssetStore: _font (loaded or not), _textures, the textures created so far
    parser                \* ParseConfig: the lines of the file, lineNum, objectName,
                          \* windowParsed, fontParsed, and how the call stands

vars == <<entities, systems, serviceActions, services, nextEntityID, nextSystemID,
          nextServiceActionID, localContinue, mainLoop, worker, pc, sweep, result,
          lastStop, schema, window, assets, parser>>

registryVars == <<entities, systems, serviceActions, services, nextEntityID,
                  nextSystemID, nextServiceActionID>>
catalogueVars == <<entities, systems, serviceActions, nextEntityID, nextSystemID,
                   nextServiceActionID>>
controlVars == <<localContinue, mainLoop, worker, lastStop>>
gameVars == <<window, assets, parser>>

\* ------------------------------------------------------------------ std::map
Min(S) == CHOOSE x \in S : \A y \in S : x <= y

\* map.begin()
Begin(m) == IF DOMAIN m = {} THEN End ELSE Min(DOMAIN m)

\* ++it on an iterator at key k
Succ(m, k) ==
    LET after == {j \in DOMAIN m : j > k}
    IN  IF after = {} THEN End ELSE Min(after)

\* map.emplace(k, v) on a fresh key
Emplace(m, k, v) == [j \in DOMAIN m \cup {k} |-> IF j = k THEN v ELSE m[j]]

\* A slip of erase: the entry stays.
EraseNothing(m, k) == m

\* map.erase(it)
Erase(m, k) == [j \in DOMAIN m \ {k} |-> m[j]]

EmptyMap == [j \in {} |-> 0]

\* ------------------------------------------------------------------ wrappers
\* Two slips of the validator: one required slot is enough; no slot is looked at.
ComponentValidatorAny(comps, row) == \E t \in comps : row[t] # Absent
ComponentValidatorNone(comps, row) == TRUE

\* A slip of the validator: it answers no whatever the row holds.
ComponentValidatorNever(comps, row) == FALSE

\* The componentValidator lambda of AddSystem: every required slot has_value().
ComponentValidator(comps, row) == \A t \in comps : row[t] # Absent

\* A slip of the validator: it looks for one required slot that has a value.
ServiceValidatorAny(svcs, row) == \E t \in svcs : row[t] # Absent

\* A slip of the validator: no slot is looked at.
ServiceValidatorNone(svcs, row) == TRUE

\* The serviceValidator lambda of AddSystem / the validator of AddServiceAction.
ServiceValidator(svcs, row) == \A t \in svcs : row[t] # Absent

\* Two slips of AssertValid: the test is left out; the test is the wrong way round.
AssertValidSkipped(wrapper) == TRUE
AssertValidInverted(wrapper) == wrapper.null # {}

\* SystemWrapper::AssertValid / ServiceActionWrapper::AssertValid: it throws
\* std::runtime_error unless no member of the wrapper is an empty std::function
\* (wrapper.null: the members that are).
AssertValid(wrapper) == wrapper.null = {}

\* A slip of the consumer: the slots are dereferenced without a test.
ConsumerReachesUnchecked(sys, entity, row) == TRUE

\* The consumer lambda of AddSystem: .value() of every required component and
\* service slot, which throws std::bad_optional_access on an empty one, and only
\* then the call of the system.
ConsumerReaches(sys, entity, row) ==
    /\ \A t \in sys.comps : entity[t] # Absent
    /\ \A t \in sys.svcs : row[t] # Absent

\* SystemWrapper::CanConsumeComponents
CanConsumeComponents(sys, row) == ComponentValidator(sys.comps, row)

\* SystemWrapper::CanConsumeServices / ServiceActionWrapper::CanConsumeServices
CanConsumeServices(wrapper, row) == ServiceValidator(wrapper.svcs, row)

\* ------------------------------------------------------------------ application objects
\* A WindowService as its constructor leaves it: no draw frame held, nothing pushed,
\* _sinceCommit 0, _msPerFrame computed from the frame rate given.
NewWindow(msPerFrame) ==
    [onDrawFrame |-> FALSE, sinceCommit |-> 0, msPerFrame |-> msPerFrame,
     texturesPushed |-> 0]

\* An AssetStore as its constructor leaves it: no font, no texture.
NewAssets == [font |-> FALSE, textures |-> EmptyMap, made |-> 0]

\* No call of ParseConfig has been made.
NoParser ==
    [lines |-> <<>>, lineNum |-> 0, objectName |-> "", windowParsed |-> FALSE,
     fontParsed |-> FALSE, st |-> "none", err |-> "none"]

InitObjects == window = NewWindow(1) /\ assets = NewAssets /\ parser = NoParser

\* ------------------------------------------------------------------ threads
IdlePc == [op |-> "idle", w |-> NoThread, old |-> NoThread]
NoSweep == [phase |-> "none", sa |-> End, sys |-> End, ent |-> End, log |-> <<>>,
            stopAt |-> 0, err |-> "none"]
UnusedWorker == [st |-> "unused", stop |-> FALSE]

\* _mainLoop.joinable()
Joinable == mainLoop # NoThread

\* A synchronous Run() loop or a dispatched worker loop is executing.
RunOps == {"run_arm", "run_loop"}
WorkerRunning(w) == worker[w].st = "running"
ModeActive == (\E c \in Callers : pc[c].op \in RunOps) \/ (\E w \in Workers : WorkerRunning(w))

\* ------------------------------------------------------------------ construction
\* WithServices(): empty registries, only the manager service installed.
InitEngine ==
    /\ entities = EmptyMap
    /\ systems = EmptyMap
    /\ serviceActions = EmptyMap
    /\ services = [t \in ServiceSlots |-> IF t = ManagerService THEN 1 ELSE Absent]
    /\ nextEntityID = 0
    /\ nextSystemID = 0
    /\ nextServiceActionID = 0
    /\ localContinue = FALSE
    /\ mainLoop = NoThread

InitThreads ==
    /\ worker = [w \in Workers |-> UnusedWorker]
    /\ pc = [c \in Callers |-> IdlePc]
    /\ sweep = [t \in Threads |-> NoSweep]
    /\ result = [c \in Callers |-> [res |-> "none", id |-> End]]
    /\ lastStop = [called |-> FALSE, ret |-> FALSE, active |-> FALSE]

Init == InitEngine /\ InitThreads /\ schema = EngineSchema /\ InitObjects

Idle(c) == pc[c].op = "idle"

\* A call that returns nothing or throws; an Add* call returning the new ID.
Return(c, r) == result' = [result EXCEPT ![c] = [res |-> r, id |-> End]]
ReturnID(c, targetID) == result' = [result EXCEPT ![c] = [res |-> "ok", id |-> targetID]]

\* ------------------------------------------------------------------ entity registry
\* A slip of AddEntity: the slots that were not given get the first given value.
EntityTupleFilled(given) ==
    [t \in ComponentTypes |-> IF t \in DOMAIN given THEN given[t]
                              ELSE IF DOMAIN given = {} THEN Absent
                              ELSE given[CHOOSE u \in DOMAIN given : TRUE]]

\* The tuple AddEntity builds: default-initialised (every slot nullopt), then each
\* given component assigned to the slot of its type.
EntityTuple(given) ==
    [t \in ComponentTypes |-> IF t \in DOMAIN given THEN given[t] ELSE Absent]

\* AddEntity(components...) with components of distinct declared types: given maps
\* each type passed to its value.
AddEntity(c, given) ==
    /\ Idle(c)
    /\ DOMAIN given \subseteq ComponentTypes
    /\ nextEntityID < MaxEntities
    /\ entities' = Emplace(entities, nextEntityID, EntityTuple(given))
    /\ nextEntityID' = nextEntityID + 1
    /\ ReturnID(c, nextEntityID)
    /\ UNCHANGED <<systems, serviceActions, services, nextSystemID, nextServiceActionID,
                   controlVars, pc, sweep>>
    /\ UNCHANGED <<schema, gameVars>>

\* SelectEntity(targetID) finds the row or throws std::invalid_argument.
SelectEntity(targetID) == targetID \in DOMAIN entities

RemoveEntity(c, targetID) ==
    /\ Idle(c)
    /\ IF SelectEntity(targetID)
       THEN entities' = Erase(entities, targetID) /\ Return(c, "ok")
       ELSE UNCHANGED entities /\ Return(c, "InvalidEntity")
    /\ UNCHANGED <<systems, serviceActions, services, nextEntityID, nextSystemID,
                   nextServiceActionID, controlVars, pc, sweep>>
    /\ UNCHANGED <<schema, gameVars>>

InstallComponent(c, targetID, t, v) ==
    /\ Idle(c)
    /\ AnyFromComponents(t)
    /\ IF ~SelectEntity(targetID)
       THEN UNCHANGED entities /\ Return(c, "InvalidEntity")
       ELSE IF entities[targetID][t] # Absent
       THEN UNCHANGED entities /\ Return(c, "AlreadyInstalled")
       ELSE entities' = [entities EXCEPT ![targetID][t] = v] /\ Return(c, "ok")
    /\ UNCHANGED <<systems, serviceActions, services, nextEntityID, nextSystemID,
                   nextServiceActionID, controlVars, pc, sweep>>
    /\ UNCHANGED <<schema, gameVars>>

\* A slip of UninstallComponent: an empty slot is cleared again without complaint.
UninstallComponentSilently(c, targetID, t) ==
    /\ Idle(c)
    /\ AnyFromComponents(t)
    /\ IF ~SelectEntity(targetID)
       THEN UNCHANGED entities /\ Return(c, "InvalidEntity")
       ELSE entities' = [entities EXCEPT ![targetID][t] = Absent] /\ Return(c, "ok")
    /\ UNCHANGED <<systems, serviceActions, services, nextEntityID, nextSystemID,
                   nextServiceActionID, controlVars, pc, sweep>>
    /\ UNCHANGED <<schema, gameVars>>

\* A slip of UninstallComponent: the whole row is reset, not only the slot named.
UninstallComponentRow(c, targetID, t) ==
    /\ Idle(c)
    /\ AnyFromComponents(t)
    /\ IF ~SelectEntity(targetID)
       THEN UNCHANGED entities /\ Return(c, "InvalidEntity")
       ELSE IF entities[targetID][t] = Absent
       THEN UNCHANGED entities /\ Return(c, "AlreadyUninstalled")
       ELSE entities' = [entities EXCEPT ![targetID] = [u \in ComponentTypes |-> Absent]]
            /\ Return(c, "ok")
    /\ UNCHANGED <<systems, serviceActions, services, nextEntityID, nextSystemID,
                   nextServiceActionID, controlVars, pc, sweep>>
    /\ UNCHANGED <<schema, gameVars>>

UninstallComponent(c, targetID, t) ==
    /\ Idle(c)
    /\ AnyFromComponents(t)
    /\ IF ~SelectEntity(targetID)
       THEN UNCHANGED entities /\ Return(c, "InvalidEntity")
       ELSE IF entities[targetID][t] = Absent
       THEN UNCHANGED entities /\ Return(c, "AlreadyUninstalled")
       ELSE entities' = [entities EXCEPT ![targetID][t] = Absent] /\ Return(c, "ok")
    /\ UNCHANGED <<systems, serviceActions, services, nextEntityID, nextSystemID,
                   nextServiceActionID, controlVars, pc, sweep>>
    /\ UNCHANGED <<schema, gameVars>>

\* A slip of AddSystem: the ID is the number of systems registered, so the ID of a
\* removed system comes back.
AddSystemReusing(c, comps, svcs, body) ==
    /\ Idle(c)
    /\ nextSystemID < MaxSystems
    /\ systems' = Emplace(systems, Cardinality(DOMAIN systems),
                          [comps |-> comps, svcs |-> svcs, body |-> body, null |-> {}])
    /\ nextSystemID' = nextSystemID + 1
    /\ ReturnID(c, Cardinality(DOMAIN systems))
    /\ UNCHANGED <<entities, serviceActions, services, nextEntityID, nextServiceActionID,
                   controlVars, pc, sweep>>
    /\ UNCHANGED <<schema, gameVars>>

\* ------------------------------------------------------------------ system registry
\* AddSystem(system): the wrapper keeps the required component and service types
\* (what the two validator lambdas test) and the behaviour function.
AddSystem(c, comps, svcs, body) ==
    /\ Idle(c)
    /\ nextSystemID < MaxSystems
    /\ systems' = Emplace(systems, nextSystemID,
                          [comps |-> comps, svcs |-> svcs, body |-> body, null |-> {}])
    /\ nextSystemID' = nextSystemID + 1
    /\ ReturnID(c, nextSystemID)
    /\ UNCHANGED <<entities, serviceActions, services, nextEntityID, nextServiceActionID,
                   controlVars, pc, sweep>>
    /\ UNCHANGED <<schema, gameVars>>

SelectSystem(targetID) == targetID \in DOMAIN systems

RemoveSystem(c, targetID) ==
    /\ Idle(c)
    /\ IF SelectSystem(targetID)
       THEN systems' = Erase(systems, targetID) /\ Return(c, "ok")
       ELSE UNCHANGED systems /\ Return(c, "InvalidSystem")
    /\ UNCHANGED <<entities, serviceActions, services, nextEntityID, nextSystemID,
                   nextServiceActionID, controlVars, pc, sweep>>
    /\ UNCHANGED <<schema, gameVars>>

\* ------------------------------------------------------------------ service actions
AddServiceAction(c, svcs, body) ==
    /\ Idle(c)
    /\ nextServiceActionID < MaxServiceActions
    /\ serviceActions' = Emplace(serviceActions, nextServiceActionID,
                                 [svcs |-> svcs, body |-> body, null |-> {}])
    /\ nextServiceActionID' = nextServiceActionID + 1
    /\ ReturnID(c, nextServiceActionID)
    /\ UNCHANGED <<entities, systems, services, nextEntityID, nextSystemID,
                   controlVars, pc, sweep>>
    /\ UNCHANGED <<schema, gameVars>>

\* A slip of InstallService: the value given replaces the one installed.
InstallServiceOverwriting(c, t, v) ==
    /\ Idle(c)
    /\ AnyFromServices(t)
    /\ services' = [services EXCEPT ![t] = v]
    /\ Return(c, "ok")
    /\ UNCHANGED <<entities, systems, serviceActions, nextEntityID, nextSystemID,
                   nextServiceActionID, controlVars, pc, sweep>>
    /\ UNCHANGED <<schema, gameVars>>

\* SelectServiceAction(ServiceActionWrapper targetID): the parameter is a wrapper
\* where an ID is meant. No ServiceActionID converts to a wrapper (its one
\* constructor takes a consumer and a validator) and no wrapper is a key of
\* _serviceActions, so no call of the function can be instantiated.
SelectServiceActionInstantiable == FALSE

SelectServiceAction(targetID) ==
    SelectServiceActionInstantiable /\ targetID \in DOMAIN serviceActions

\* RemoveServiceAction(targetID): _serviceActions.erase(SelectServiceAction(targetID)).
\* A program that calls it does not build, so the call is never made.
RemoveServiceAction(c, targetID) ==
    /\ Idle(c)
    /\ SelectServiceActionInstantiable
    /\ IF SelectServiceAction(targetID)
       THEN serviceActions' = Erase(serviceActions, targetID) /\ Return(c, "ok")
       ELSE UNCHANGED serviceActions /\ Return(c, "InvalidServiceAction")
    /\ UNCHANGED <<entities, systems, services, nextEntityID, nextSystemID,
                   nextServiceActionID, controlVars, pc, sweep>>
    /\ UNCHANGED <<schema, gameVars>>

\* ------------------------------------------------------------------ service registry
InstallService(c, t, v) ==
    /\ Idle(c)
    /\ AnyFromServices(t)
    /\ IF services[t] # Absent
       THEN UNCHANGED services /\ Return(c, "AlreadyInstalled")
       ELSE services' = [services EXCEPT ![t] = v] /\ Return(c, "ok")
    /\ UNCHANGED <<entities, systems, serviceActions, nextEntityID, nextSystemID,
                   nextServiceActionID, controlVars, pc, sweep>>
    /\ UNCHANGED <<schema, gameVars>>

\* A slip of UninstallService: every user service is reset, not only the one named.
UninstallServiceAll(c, t) ==
    /\ Idle(c)
    /\ AnyFromServices(t)
    /\ IF services[t] = Absent
       THEN UNCHANGED services /\ Return(c, "AlreadyUninstalled")
       ELSE services' = [u \in ServiceSlots |-> IF u \in ServiceTypes THEN Absent
                                                ELSE services[u]] /\ Return(c, "ok")
    /\ UNCHANGED <<entities, systems, serviceActions, nextEntityID, nextSystemID,
                   nextServiceActionID, controlVars, pc, sweep>>
    /\ UNCHANGED <<schema, gameVars>>

UninstallService(c, t) ==
    /\ Idle(c)
    /\ AnyFromServices(t)
    /\ IF services[t] = Absent
       THEN UNCHANGED services /\ Return(c, "AlreadyUninstalled")
       ELSE services' = [services EXCEPT ![t] = Absent] /\ Return(c, "ok")
    /\ UNCHANGED <<entities, systems, serviceActions, nextEntityID, nextSystemID,
                   nextServiceActionID, controlVars, pc, sweep>>
    /\ UNCHANGED <<schema, gameVars>>

\* ------------------------------------------------------------------ RequestStop
\* A slip of RequestStop: the answer is given and _localContinue is left as it is.
RequestStopKept ==
    /\ lastStop' = [called |-> TRUE, ret |-> TRUE, active |-> ModeActive]
    /\ UNCHANGED <<localContinue, worker, mainLoop>>

\* A slip of RequestStop: a request on a thread already asked to stop is answered
\* as if it were the first.
RequestStopAnswersTrue ==
    IF Joinable
    THEN /\ worker' = [worker EXCEPT ![mainLoop].stop = TRUE]
         /\ lastStop' = [called |-> TRUE, ret |-> TRUE, active |-> ModeActive]
         /\ UNCHANGED <<localContinue, mainLoop>>
    ELSE /\ localContinue' = FALSE
         /\ lastStop' = [called |-> TRUE, ret |-> TRUE, active |-> ModeActive]
         /\ UNCHANGED <<worker, mainLoop>>

\* RequestStop(), also reached from a body through ManagerService::RequestStop():
\* a joinable _mainLoop gets request_stop() (true only for the call that makes the
\* request); otherwise _localContinue is cleared and the answer is true.
RequestStop ==
    IF Joinable
    THEN /\ worker' = [worker EXCEPT ![mainLoop].stop = TRUE]
         /\ lastStop' = [called |-> TRUE, ret |-> ~worker[mainLoop].stop,
                         active |-> ModeActive]
         /\ UNCHANGED <<localContinue, mainLoop>>
    ELSE /\ localContinue' = FALSE
         /\ lastStop' = [called |-> TRUE, ret |-> TRUE, active |-> ModeActive]
         /\ UNCHANGED <<worker, mainLoop>>

CallRequestStop(c) ==
    /\ Idle(c)
    /\ RequestStop
    /\ UNCHANGED <<registryVars, pc, sweep, result>>
    /\ UNCHANGED <<schema, gameVars>>

\* ------------------------------------------------------------------ behaviour functions
\* The functions registered as systems and service actions, by what they do to the
\* engine: "Nop" touches only the data it is handed (PhysicsSystem, DrawEntities);
\* "HandleInput" asks the manager to stop when the user quits (stop: whether it does);
\* "CountAndStop" adds one to the Counter service and asks the manager to stop once
\* the counter has reached body.n; "UninstallS" is handed S and uninstalls it from
\* the engine, "InstallS" installs S in the engine if it is not installed;
\* "RemoveEntity" / "RemoveSystem" remove the entity / the system with ID body.n
\* from the engine if it is registered; "AddEntity" adds an entity holding A = body.n
\* and "AddSystem" registers a system over {B} and the manager, each while the
\* engine has issued fewer IDs than the cap.
Nop == [kind |-> "Nop", n |-> 0]
HandleInput == [kind |-> "HandleInput", n |-> 0]
CountAndStop(n) == [kind |-> "CountAndStop", n |-> n]
UninstallS == [kind |-> "UninstallS", n |-> 0]
InstallS == [kind |-> "InstallS", n |-> 0]
RemoveEntityBody(n) == [kind |-> "RemoveEntity", n |-> n]
RemoveSystemBody(n) == [kind |-> "RemoveSystem", n |-> n]
AddEntityBody(n) == [kind |-> "AddEntity", n |-> n]
AddSystemBody == [kind |-> "AddSystem", n |-> 0]

\* The system an "AddSystem" body registers.
AddedSystem == [comps |-> {"B"}, svcs |-> {ManagerService}, body |-> Nop, null |-> {}]

\* A slip of a body: whether it uninstalls S depends on something that is not in
\* the state of the engine.
InvokeUnsettled(body, stop) ==
    /\ ~stop
    /\ \/ services' = services
       \/ services' = [services EXCEPT !["S"] = Absent]
    /\ UNCHANGED <<catalogueVars, controlVars>>

Invoke(body, stop) ==
    CASE body.kind = "Nop" ->
            /\ ~stop
            /\ UNCHANGED <<catalogueVars, services, controlVars>>
      [] body.kind = "HandleInput" ->
            /\ UNCHANGED <<catalogueVars, services>>
            /\ IF stop THEN RequestStop ELSE UNCHANGED controlVars
      [] body.kind = "CountAndStop" ->
            /\ services' = [services EXCEPT !["Counter"] = @ + 1]
            /\ stop = (services["Counter"] + 1 >= body.n)
            /\ IF stop THEN RequestStop ELSE UNCHANGED controlVars
            /\ UNCHANGED catalogueVars
      [] body.kind = "UninstallS" ->
            /\ ~stop
            /\ services' = [services EXCEPT !["S"] = Absent]
            /\ UNCHANGED <<catalogueVars, controlVars>>
      [] body.kind = "InstallS" ->
            /\ ~stop
            /\ services' = [services EXCEPT !["S"] = IF @ = Absent THEN 1 ELSE @]
            /\ UNCHANGED <<catalogueVars, controlVars>>
      [] body.kind = "RemoveEntity" ->
            /\ ~stop
            /\ entities' = IF SelectEntity(body.n) THEN Erase(entities, body.n) ELSE entities
            /\ UNCHANGED <<systems, serviceActions, nextEntityID, nextSystemID,
                           nextServiceActionID, services, controlVars>>
      [] body.kind = "RemoveSystem" ->
            /\ ~stop
            /\ systems' = IF SelectSystem(body.n) THEN Erase(systems, body.n) ELSE systems
            /\ UNCHANGED <<entities, serviceActions, nextEntityID, nextSystemID,
                           nextServiceActionID, services, controlVars>>
      [] body.kind = "AddEntity" ->
            /\ ~stop
            /\ IF nextEntityID < MaxEntities
               THEN /\ entities' = Emplace(entities, nextEntityID,
                                           EntityTuple([t \in {"A"} |-> body.n]))
                    /\ nextEntityID' = nextEntityID + 1
               ELSE UNCHANGED <<entities, nextEntityID>>
            /\ UNCHANGED <<systems, serviceActions, nextSystemID, nextServiceActionID,
                           services, controlVars>>
      [] body.kind = "AddSystem" ->
            /\ ~stop
            /\ IF nextSystemID < MaxSystems
               THEN /\ systems' = Emplace(systems, nextSystemID, AddedSystem)
                    /\ nextSystemID' = nextSystemID + 1
               ELSE UNCHANGED <<systems, nextSystemID>>
            /\ UNCHANGED <<entities, serviceActions, nextEntityID, nextServiceActionID,
                           services, controlVars>>

\* ------------------------------------------------------------------ Sweep as a function
\* What a body that depends on nothing but the rows it is handed and leaves the
\* maps alone does to the service row.
Effect(body, row) ==
    CASE body.kind = "UninstallS" -> [row EXCEPT !["S"] = Absent]
      [] body.kind = "InstallS" -> [row EXCEPT !["S"] = IF @ = Absent THEN 1 ELSE @]
      [] body.kind = "CountAndStop" -> [row EXCEPT !["Counter"] = @ + 1]
      [] OTHER -> row

\* The loop over _serviceActions from the node a to the end: the service row it
\* leaves and the invocations made.
RECURSIVE ServiceActionsFrom(_, _, _)
ServiceActionsFrom(a, row, log) ==
    IF a = End
    THEN [services |-> row, log |-> log]
    ELSE IF ServiceValidator(serviceActions[a].svcs, row)
    THEN ServiceActionsFrom(Succ(serviceActions, a), Effect(serviceActions[a].body, row),
                            Append(log, <<0, a, End>>))
    ELSE ServiceActionsFrom(Succ(serviceActions, a), row, log)

\* The loop over _entities inside the system s, from the node e to the end.
RECURSIVE EntitiesFrom(_, _, _, _)
EntitiesFrom(s, e, row, log) ==
    IF e = End
    THEN [services |-> row, log |-> log]
    ELSE IF ComponentValidator(systems[s].comps, entities[e])
    THEN EntitiesFrom(s, Succ(entities, e), Effect(systems[s].body, row),
                      Append(log, <<1, s, e>>))
    ELSE EntitiesFrom(s, Succ(entities, e), row, log)

\* The loop over _systems from the node s to the end; inner: the state the entity
\* loop of s has left, when the loop over _systems is taken up after it.
RECURSIVE SystemsFrom(_, _, _)
SystemsFrom(s, row, log) ==
    IF s = End
    THEN [services |-> row, log |-> log]
    ELSE IF ServiceValidator(systems[s].svcs, row)
    THEN LET inner == EntitiesFrom(s, Begin(entities), row, log)
         IN  SystemsFrom(Succ(systems, s), inner.services, inner.log)
    ELSE SystemsFrom(Succ(systems, s), row, log)

\* Sweep() as a whole on a service row.
WholeSweep(row) ==
    LET first == ServiceActionsFrom(Begin(serviceActions), row, <<>>)
    IN  SystemsFrom(Begin(systems), first.services, first.log)

\* Sweep() from the position p on.
RestOfSweep(p, row) ==
    CASE p.phase = "sa" ->
            LET first == ServiceActionsFrom(p.sa, row, p.log)
            IN  SystemsFrom(Begin(systems), first.services, first.log)
      [] p.phase = "sys" -> SystemsFrom(p.sys, row, p.log)
      [] p.phase = "ent" ->
            LET inner == EntitiesFrom(p.sys, p.ent, row, p.log)
            IN  SystemsFrom(Succ(systems, p.sys), inner.services, inner.log)
      [] OTHER -> [services |-> row, log |-> p.log]

\* ------------------------------------------------------------------ Sweep
\* A slip of Sweep: the two loops the other way round.
SweepOrderSwapped == <<"sys", "sa">>

\* The two loops of Sweep(), in the order they are written.
SweepOrder == <<"sa", "sys">>

\* The three maps Sweep() iterates, as they are in a state.
Registries == [sa |-> serviceActions, sys |-> systems, ent |-> entities]

\* A slip of the entity loop: it iterates a copy of the map taken before the body ran.
LoopMapCopied(before, after) == before

\* for (auto& [entityID, entity] : _entities): the loop iterates the member itself,
\* so ++it goes on in the map as the body has left it.
LoopMap(before, after) == after

\* The position at the head of one of the two loops over the maps R.
LoopHead(phase, log, stopAt, R) ==
    IF phase = "sa"
    THEN [phase |-> "sa", sa |-> Begin(R.sa), sys |-> End, ent |-> End,
          log |-> log, stopAt |-> stopAt, err |-> "none"]
    ELSE [phase |-> "sys", sa |-> End, sys |-> Begin(R.sys), ent |-> End,
          log |-> log, stopAt |-> stopAt, err |-> "none"]

\* The position after one of the two loops has run off its end.
LoopExit(phase, log, stopAt, R) ==
    IF phase = SweepOrder[1]
    THEN LoopHead(SweepOrder[2], log, stopAt, R)
    ELSE [phase |-> "done", sa |-> End, sys |-> End, ent |-> End, log |-> log,
          stopAt |-> stopAt, err |-> "none"]

\* A position past the end of a loop moves on to where the next iteration, if any,
\* is evaluated: ++it and the test against end() belong to the iteration before.
RECURSIVE Settle(_, _)
Settle(p, R) ==
    CASE p.phase = "sa" /\ p.sa = End ->
            Settle(LoopExit("sa", p.log, p.stopAt, R), R)
      [] p.phase = "ent" /\ p.ent = End ->
            Settle([p EXCEPT !.phase = "sys", !.sys = Succ(R.sys, p.sys)], R)
      [] p.phase = "sys" /\ p.sys = End ->
            Settle(LoopExit("sys", p.log, p.stopAt, R), R)
      [] OTHER -> p

EnterSweep(th) ==
    sweep' = [sweep EXCEPT ![th] =
                 Settle(LoopHead(SweepOrder[1], <<>>, 0, Registries), Registries)]

\* A slip of the loops of Run and of the worker: the test of the loop is made at
\* any point of the sweep, not between two sweeps.
AtSweepBoundaryAnywhere(th) == TRUE

Sweeping(th) == sweep[th].phase \in {"sa", "sys", "ent"}
AtSweepBoundary(th) == sweep[th].phase \in {"none", "done"}

\* Bookkeeping: the number of the invocation of this sweep that first asked to stop.
StopAt(p, stop) == IF stop /\ p.stopAt = 0 THEN Len(p.log) + 1 ELSE p.stopAt

\* An exception leaves Sweep() from where it is.
Thrown(p, err) == [p EXCEPT !.phase = "threw", !.err = err]

\* The loops go on from an iterator or a wrapper reference whose map node a body
\* has erased: the program may stop there, or go on at any node of the maps.
Undefined(p, R) ==
    {[p EXCEPT !.phase = "crashed"]}
    \cup {Settle([p EXCEPT !.phase = "sys", !.sys = s, !.ent = End], R) :
             s \in DOMAIN R.sys \cup {End}}
    \cup {Settle([p EXCEPT !.phase = "ent", !.sys = s, !.ent = e], R) :
             s \in DOMAIN R.sys, e \in DOMAIN R.ent \cup {End}}

\* One iteration of the loop over _serviceActions.
ServiceActionStep(th) ==
    LET p == sweep[th]
        serviceAction == serviceActions[p.sa]
    IN
    /\ p.phase = "sa"
    /\ IF ~AssertValid(serviceAction)
       THEN /\ sweep' = [sweep EXCEPT ![th] = Thrown(p, "IllFormedRegistration")]
            /\ UNCHANGED <<catalogueVars, services, controlVars>>
       ELSE IF CanConsumeServices(serviceAction, services)
       THEN \E stop \in BOOLEAN :
               /\ Invoke(serviceAction.body, stop)
               /\ sweep' = [sweep EXCEPT ![th] = Settle(
                     [p EXCEPT !.sa = Succ(serviceActions', p.sa),
                               !.log = Append(p.log, <<0, p.sa, End>>),
                               !.stopAt = StopAt(p, stop)], Registries')]
       ELSE /\ sweep' = [sweep EXCEPT ![th] =
                     Settle([p EXCEPT !.sa = Succ(serviceActions, p.sa)], Registries)]
            /\ UNCHANGED <<catalogueVars, services, controlVars>>
    /\ UNCHANGED <<pc, result>>
    /\ UNCHANGED <<schema, gameVars>>

\* The head of one iteration of the loop over _systems: the service check.
SystemStep(th) ==
    LET p == sweep[th]
        system == systems[p.sys]
    IN
    /\ p.phase = "sys"
    /\ IF ~AssertValid(system)
       THEN sweep' = [sweep EXCEPT ![th] = Thrown(p, "IllFormedRegistration")]
       ELSE IF CanConsumeServices(system, services)
       THEN sweep' = [sweep EXCEPT ![th] =
                     Settle([p EXCEPT !.phase = "ent", !.ent = Begin(entities)], Registries)]
       ELSE sweep' = [sweep EXCEPT ![th] =
                     Settle([p EXCEPT !.sys = Succ(systems, p.sys)], Registries)]
    /\ UNCHANGED <<registryVars, controlVars, pc, result>>
    /\ UNCHANGED <<schema, gameVars>>

\* One iteration of the inner loop over _entities: the component check and, when it
\* passes, ConsumeEntity. The two tests inside ConsumeEntity build an exception and
\* drop it, so the consumer is called whatever they find; the consumer takes
\* .value() of every required slot before it calls the system.
EntityStep(th) ==
    LET p == sweep[th]
        system == systems[p.sys]
        entity == entities[p.ent]
    IN
    /\ p.phase = "ent"
    /\ IF ~AssertValid(system)
       THEN /\ sweep' = [sweep EXCEPT ![th] = Thrown(p, "IllFormedRegistration")]
            /\ UNCHANGED <<catalogueVars, services, controlVars>>
       ELSE IF ~CanConsumeComponents(system, entity)
       THEN /\ sweep' = [sweep EXCEPT ![th] =
                     Settle([p EXCEPT !.ent = Succ(entities, p.ent)], Registries)]
            /\ UNCHANGED <<catalogueVars, services, controlVars>>
       ELSE IF ~ConsumerReaches(system, entity, services)
       THEN /\ sweep' = [sweep EXCEPT ![th] = Thrown(p, "bad_optional_access")]
            /\ UNCHANGED <<catalogueVars, services, controlVars>>
       ELSE \E stop \in BOOLEAN :
               /\ Invoke(system.body, stop)
               /\ LET q == [p EXCEPT !.log = Append(p.log, <<1, p.sys, p.ent>>),
                                     !.stopAt = StopAt(p, stop)]
                  IN  IF p.sys \in DOMAIN systems' /\ p.ent \in DOMAIN entities'
                      THEN sweep' = [sweep EXCEPT ![th] =
                              Settle([q EXCEPT !.ent = Succ(LoopMap(entities, entities'), p.ent)],
                                     Registries')]
                      ELSE \E next \in Undefined(q, Registries') :
                              sweep' = [sweep EXCEPT ![th] = next]
    /\ UNCHANGED <<pc, result>>
    /\ UNCHANGED <<schema, gameVars>>

\* A client thread calling Sweep() itself.
SweepCall(c) ==
    /\ Idle(c)
    /\ pc' = [pc EXCEPT ![c].op = "sweep"]
    /\ EnterSweep(c)
    /\ UNCHANGED <<registryVars, controlVars, result>>
    /\ UNCHANGED <<schema, gameVars>>

SweepCallReturn(c) ==
    /\ pc[c].op = "sweep" /\ sweep[c].phase = "done"
    /\ pc' = [pc EXCEPT ![c] = IdlePc]
    /\ sweep' = [sweep EXCEPT ![c] = NoSweep]
    /\ Return(c, "ok")
    /\ UNCHANGED <<registryVars, controlVars>>
    /\ UNCHANGED <<schema, gameVars>>

\* Sweep() called by a client thread is left by an exception.
SweepCallThrows(c) ==
    /\ pc[c].op = "sweep" /\ sweep[c].phase = "threw"
    /\ pc' = [pc EXCEPT ![c] = IdlePc]
    /\ sweep' = [sweep EXCEPT ![c] = NoSweep]
    /\ Return(c, sweep[c].err)
    /\ UNCHANGED <<registryVars, controlVars>>
    /\ UNCHANGED <<schema, gameVars>>

\* ------------------------------------------------------------------ Run
\* A slip of Run: the test is left out.
RunRejectsNever == FALSE

\* The test at the head of Run(): a joinable _mainLoop makes it throw.
RunRejects == Joinable

RunRejected(c) ==
    /\ Idle(c)
    /\ RunRejects
    /\ Return(c, "AlreadyDispatched")
    /\ UNCHANGED <<registryVars, controlVars, pc, sweep>>
    /\ UNCHANGED <<schema, gameVars>>

RunEnter(c) ==
    /\ Idle(c)
    /\ ~RunRejects
    /\ pc' = [pc EXCEPT ![c].op = "run_arm"]
    /\ Return(c, "none")
    /\ UNCHANGED <<registryVars, controlVars, sweep>>
    /\ UNCHANGED <<schema, gameVars>>

\* _localContinue = true;
RunArm(c) ==
    /\ pc[c].op = "run_arm"
    /\ localContinue' = TRUE
    /\ pc' = [pc EXCEPT ![c].op = "run_loop"]
    /\ UNCHANGED <<registryVars, mainLoop, worker, lastStop, sweep, result>>
    /\ UNCHANGED <<schema, gameVars>>

\* while (_localContinue) { this->Sweep(); }
RunSweep(c) ==
    /\ pc[c].op = "run_loop" /\ AtSweepBoundary(c)
    /\ localContinue
    /\ EnterSweep(c)
    /\ UNCHANGED <<registryVars, controlVars, pc, result>>
    /\ UNCHANGED <<schema, gameVars>>

RunReturn(c) ==
    /\ pc[c].op = "run_loop" /\ AtSweepBoundary(c)
    /\ ~localContinue
    /\ pc' = [pc EXCEPT ![c] = IdlePc]
    /\ sweep' = [sweep EXCEPT ![c] = NoSweep]
    /\ Return(c, "ok")
    /\ UNCHANGED <<registryVars, controlVars>>
    /\ UNCHANGED <<schema, gameVars>>

SweepSteps(th) ==
    \/ ServiceActionStep(th)
    \/ SystemStep(th)
    \/ EntityStep(th)

\* ------------------------------------------------------------------ Dispatch
\* A slip of the worker loop: the stop token is never looked at.
StopRequestedNever(w) == FALSE

\* The body of the lambda handed to std::jthread: while (!stoken.stop_requested()).
StopRequested(w) == worker[w].stop

WorkerSweep(w) ==
    /\ worker[w].st = "running" /\ AtSweepBoundary(w)
    /\ ~StopRequested(w)
    /\ EnterSweep(w)
    /\ UNCHANGED <<registryVars, controlVars, pc, result>>
    /\ UNCHANGED <<schema, gameVars>>

WorkerExit(w) ==
    /\ worker[w].st = "running" /\ AtSweepBoundary(w)
    /\ StopRequested(w)
    /\ worker' = [worker EXCEPT ![w].st = "done"]
    /\ sweep' = [sweep EXCEPT ![w] = NoSweep]
    /\ UNCHANGED <<registryVars, localContinue, mainLoop, lastStop, pc, result>>
    /\ UNCHANGED <<schema, gameVars>>

\* std::jthread(lambda, std::ref(*this)): the new thread starts at once, before the
\* temporary is assigned to _mainLoop. Dispatch() tests nothing beforehand.
DispatchSpawn(c, w) ==
    /\ Idle(c)
    /\ worker[w].st = "unused"
    /\ worker' = [worker EXCEPT ![w] = [st |-> "running", stop |-> FALSE]]
    /\ pc' = [pc EXCEPT ![c] = [op |-> "disp_assign", w |-> w, old |-> NoThread]]
    /\ Return(c, "none")
    /\ UNCHANGED <<registryVars, localContinue, mainLoop, lastStop, sweep>>
    /\ UNCHANGED <<schema, gameVars>>

\* _mainLoop = std::jthread(...) on a _mainLoop that is not joinable.
DispatchAssign(c) ==
    /\ pc[c].op = "disp_assign"
    /\ ~Joinable
    /\ mainLoop' = pc[c].w
    /\ pc' = [pc EXCEPT ![c] = IdlePc]
    /\ Return(c, "ok")
    /\ UNCHANGED <<registryVars, localContinue, worker, lastStop, sweep>>
    /\ UNCHANGED <<schema, gameVars>>

\* The move assignment on a joinable _mainLoop as the standard words it:
\* request_stop() and join() on the old thread, and only then the assignment.
DispatchStopOld(c) ==
    /\ pc[c].op = "disp_assign"
    /\ Joinable
    /\ worker' = [worker EXCEPT ![mainLoop].stop = TRUE]
    /\ pc' = [pc EXCEPT ![c].op = "disp_join", ![c].old = mainLoop]
    /\ UNCHANGED <<registryVars, localContinue, mainLoop, lastStop, sweep, result>>
    /\ UNCHANGED <<schema, gameVars>>

\* The same assignment as libstdc++ writes it: swap first, then the temporary
\* that now holds the old thread is destroyed (request_stop() and join()).
DispatchSwap(c) ==
    /\ pc[c].op = "disp_assign"
    /\ Joinable
    /\ mainLoop' = pc[c].w
    /\ worker' = [worker EXCEPT ![mainLoop].stop = TRUE]
    /\ pc' = [pc EXCEPT ![c].op = "disp_destroy", ![c].old = mainLoop]
    /\ UNCHANGED <<registryVars, localContinue, lastStop, sweep, result>>
    /\ UNCHANGED <<schema, gameVars>>

\* A slip of AwaitStop: it returns without waiting for the thread.
JoinCompletesAtOnce(w) == TRUE

\* join() returns once the joined thread has left its function.
JoinCompletes(w) == worker[w].st \in {"done", "joined"}

DispatchJoinOld(c) ==
    /\ pc[c].op \in {"disp_join", "disp_destroy"}
    /\ JoinCompletes(pc[c].old)
    /\ worker' = [worker EXCEPT ![pc[c].old].st = "joined"]
    /\ mainLoop' = IF pc[c].op = "disp_join" THEN pc[c].w ELSE mainLoop
    /\ pc' = [pc EXCEPT ![c] = IdlePc]
    /\ Return(c, "ok")
    /\ UNCHANGED <<registryVars, localContinue, lastStop, sweep>>
    /\ UNCHANGED <<schema, gameVars>>

\* ------------------------------------------------------------------ AwaitStop
AwaitStopRejected(c) ==
    /\ Idle(c)
    /\ ~Joinable
    /\ Return(c, "NotDispatched")
    /\ UNCHANGED <<registryVars, controlVars, pc, sweep>>
    /\ UNCHANGED <<schema, gameVars>>

AwaitStopEnter(c) ==
    /\ Idle(c)
    /\ Joinable
    /\ pc' = [pc EXCEPT ![c] = [op |-> "await_join", w |-> mainLoop, old |-> NoThread]]
    /\ Return(c, "none")
    /\ UNCHANGED <<registryVars, controlVars, sweep>>
    /\ UNCHANGED <<schema, gameVars>>

\* A slip of AwaitStop: the handle is left as it was after the join.
AwaitStopReturnStillJoinable(c) ==
    /\ pc[c].op = "await_join"
    /\ JoinCompletes(pc[c].w)
    /\ worker' = [worker EXCEPT ![pc[c].w].st = "joined"]
    /\ pc' = [pc EXCEPT ![c] = IdlePc]
    /\ Return(c, "ok")
    /\ UNCHANGED <<registryVars, localContinue, mainLoop, lastStop, sweep>>
    /\ UNCHANGED <<schema, gameVars>>

\* _mainLoop.join() returns; the joined handle is no longer joinable.
AwaitStopReturn(c) ==
    /\ pc[c].op = "await_join"
    /\ JoinCompletes(pc[c].w)
    /\ worker' = [worker EXCEPT ![pc[c].w].st = "joined"]
    /\ mainLoop' = IF mainLoop = pc[c].w THEN NoThread ELSE mainLoop
    /\ pc' = [pc EXCEPT ![c] = IdlePc]
    /\ Return(c, "ok")
    /\ UNCHANGED <<registryVars, localContinue, lastStop, sweep>>
    /\ UNCHANGED <<schema, gameVars>>

\* ------------------------------------------------------------------ specifications
Rows == [ComponentTypes -> {Absent, 1}]
\* Argument lists of AddEntity: a value for each type of a subset of the declared ones.
GivenOver(V) == UNION {[X -> V] : X \in SUBSET ComponentTypes}
EntityIDs == 0..(MaxEntities - 1)
SystemIDs == 0..(MaxSystems - 1)

\* One client thread fills the registries of a fresh engine and calls Sweep().
NextSweep ==
    \/ \E given \in GivenOver({1}) : AddEntity(1, given)
    \/ \E id \in DOMAIN entities : RemoveEntity(1, id)
    \/ AddSystem(1, {"A", "B"}, {"S"}, Nop)
    \/ AddSystem(1, {"A"}, {ManagerService}, Nop)
    \/ \E id \in DOMAIN systems : RemoveSystem(1, id)
    \/ AddServiceAction(1, {"S"}, Nop)
    \/ InstallService(1, "S", 1)
    \/ UninstallService(1, "S")
    \/ SweepCall(1)
    \/ SweepCallReturn(1)
    \/ SweepSteps(1)

SpecSweep == Init /\ [][NextSweep]_vars

\* The engine as an application has set it up (RunGame): one entity, one system, the
\* input-handling service action, the services installed.
InitGame ==
    /\ entities = Emplace(EmptyMap, 0, [t \in ComponentTypes |-> IF t = "A" THEN 1 ELSE Absent])
    /\ systems = Emplace(EmptyMap, 0, [comps |-> {"A"}, svcs |-> {"S"}, body |-> Nop, null |-> {}])
    /\ serviceActions = Emplace(EmptyMap, 0, [svcs |-> {ManagerService}, body |-> HandleInput, null |-> {}])
    /\ services = [t \in ServiceSlots |-> IF t = "Counter" THEN Absent ELSE 1]
    /\ nextEntityID = 1
    /\ nextSystemID = 1
    /\ nextServiceActionID = 1
    /\ localContinue = FALSE
    /\ mainLoop = NoThread
    /\ InitThreads
    /\ schema = EngineSchema
    /\ InitObjects

\* Any client thread may call Run, Dispatch, AwaitStop and RequestStop at any time.
Next ==
    \/ \E c \in Callers :
          \/ RunRejected(c)
          \/ RunEnter(c)
          \/ RunArm(c)
          \/ RunSweep(c)
          \/ RunReturn(c)
          \/ \E w \in Workers : DispatchSpawn(c, w)
          \/ DispatchAssign(c)
          \/ DispatchStopOld(c)
          \/ DispatchSwap(c)
          \/ DispatchJoinOld(c)
          \/ AwaitStopRejected(c)
          \/ AwaitStopEnter(c)
          \/ AwaitStopReturn(c)
          \/ CallRequestStop(c)
    \/ \E w \in Workers : WorkerSweep(w) \/ WorkerExit(w)
    \/ \E th \in Threads : SweepSteps(th)

Spec == InitGame /\ [][Next]_vars

\* ------------------------------------------------------------------ synchronous mode
\* Registries as a set-up phase leaves them: IDs 0..k-1 for some k up to the cap.
MapsUpTo(n, V) == UNION {[0..(k - 1) -> V] : k \in 0..n}


InitRun ==
    LET
        RunSystems == {[comps |-> {"A"}, svcs |-> {ManagerService}, body |-> HandleInput, null |-> {}],
                       [comps |-> {"A", "B"}, svcs |-> {"S"}, body |-> Nop, null |-> {}]}
        RunServiceActions == {[svcs |-> {ManagerService}, body |-> HandleInput, null |-> {}],
                              [svcs |-> {"S"}, body |-> Nop, null |-> {}]}
    IN
        /\ entities \in MapsUpTo(MaxEntities, Rows)
        /\ systems \in MapsUpTo(MaxSystems, RunSystems)
        /\ serviceActions \in MapsUpTo(MaxServiceActions, RunServiceActions)
        /\ \E s \in {Absent, 1} :
              services = [t \in ServiceSlots |-> IF t = ManagerService THEN 1
                                                 ELSE IF t = "S" THEN s ELSE Absent]
        /\ nextEntityID = Cardinality(DOMAIN entities)
        /\ nextSystemID = Cardinality(DOMAIN systems)
        /\ nextServiceActionID = Cardinality(DOMAIN serviceActions)
        /\ localContinue = FALSE
        /\ mainLoop = NoThread
        /\ InitThreads
        /\ schema = EngineSchema
        /\ InitObjects

\* One client thread calls Run(); only the behaviour functions ask to stop.
NextRun ==
    \/ RunEnter(1)
    \/ RunArm(1)
    \/ RunSweep(1)
    \/ RunReturn(1)
    \/ SweepSteps(1)

SpecRun == InitRun /\ [][NextRun]_vars

\* ------------------------------------------------------------------ counting scenario
\* k entities holding A (the rank) and one without, Counter installed at 0, one
\* system over {A} and {Counter, manager} that counts and asks to stop at n.
InitCount ==
    /\ \E k \in 1..MaxRanked :
          entities = [e \in 0..k |-> [t \in ComponentTypes |->
                                        IF t = "A" /\ e < k THEN 1 ELSE Absent]]
    /\ \E n \in (1..MaxThreshold) \cup {SpecThreshold} :
          systems = Emplace(EmptyMap, 0, [comps |-> {"A"},
                                          svcs |-> {"Counter", ManagerService},
                                          body |-> CountAndStop(n), null |-> {}])
    /\ serviceActions = EmptyMap
    /\ services = [t \in ServiceSlots |-> IF t = "S" THEN Absent
                                          ELSE IF t = "Counter" THEN 0 ELSE 1]
    /\ nextEntityID = Cardinality(DOMAIN entities)
    /\ nextSystemID = 1
    /\ nextServiceActionID = 0
    /\ localContinue = FALSE
    /\ mainLoop = NoThread
    /\ InitThreads
    /\ schema = EngineSchema
    /\ InitObjects

\* The scenario calls Run() once; it registers no service action.
NextCount ==
    \/ (result[1].res = "none" /\ RunEnter(1))
    \/ RunArm(1)
    \/ RunSweep(1)
    \/ RunReturn(1)
    \/ SystemStep(1)
    \/ EntityStep(1)

SpecCount == InitCount /\ [][NextCount]_vars

\* ------------------------------------------------------------------ dispatched mode
\* One controlling thread calls Dispatch, RequestStop and AwaitStop in any order;
\* the workers are scheduled fairly and a pending join returns once it can.
NextDispatch ==
    \/ \E w \in Workers : DispatchSpawn(1, w)
    \/ DispatchAssign(1)
    \/ DispatchStopOld(1)
    \/ DispatchSwap(1)
    \/ DispatchJoinOld(1)
    \/ AwaitStopRejected(1)
    \/ AwaitStopEnter(1)
    \/ AwaitStopReturn(1)
    \/ CallRequestStop(1)
    \/ \E w \in Workers : WorkerSweep(w) \/ WorkerExit(w)
    \/ \E w \in Workers : SweepSteps(w)

WorkerStep(w) == WorkerSweep(w) \/ WorkerExit(w) \/ SweepSteps(w)

FairDispatch ==
    /\ InitGame
    /\ [][NextDispatch]_vars
    /\ \A w \in Workers : WF_vars(WorkerStep(w))
    /\ WF_vars(AwaitStopReturn(1))
    /\ WF_vars(DispatchJoinOld(1))

\* ------------------------------------------------------------------ one controlling thread
\* One thread drives the engine through its whole life: Run, Dispatch, RequestStop
\* and AwaitStop in any order, one call after the other.
NextLifecycle ==
    \/ RunRejected(1)
    \/ RunEnter(1)
    \/ RunArm(1)
    \/ RunSweep(1)
    \/ RunReturn(1)
    \/ \E w \in Workers : DispatchSpawn(1, w)
    \/ DispatchAssign(1)
    \/ DispatchStopOld(1)
    \/ DispatchSwap(1)
    \/ DispatchJoinOld(1)
    \/ AwaitStopRejected(1)
    \/ AwaitStopEnter(1)
    \/ AwaitStopReturn(1)
    \/ CallRequestStop(1)
    \/ \E w \in Workers : WorkerSweep(w) \/ WorkerExit(w)
    \/ \E th \in {1} \cup Workers : SweepSteps(th)

SpecLifecycle == InitGame /\ [][NextLifecycle]_vars

\* ------------------------------------------------------------------ stop from another thread
\* The system and the service action of the application, over any entities.
InitStopRace ==
    /\ entities \in MapsUpTo(MaxEntities, Rows)
    /\ systems = Emplace(EmptyMap, 0, [comps |-> {"A"}, svcs |-> {"S"}, body |-> Nop, null |-> {}])
    /\ serviceActions = Emplace(EmptyMap, 0, [svcs |-> {ManagerService}, body |-> HandleInput, null |-> {}])
    /\ services = [t \in ServiceSlots |-> IF t = "Counter" THEN Absent ELSE 1]
    /\ nextEntityID = Cardinality(DOMAIN entities)
    /\ nextSystemID = 1
    /\ nextServiceActionID = 1
    /\ localContinue = FALSE
    /\ mainLoop = NoThread
    /\ InitThreads
    /\ schema = EngineSchema
    /\ InitObjects

\* One client thread calls Run() once; another calls RequestStop() whenever it
\* likes. No worker is dispatched.
NextStopRace ==
    \/ (result[1].res = "none" /\ RunEnter(1))
    \/ RunArm(1)
    \/ RunSweep(1)
    \/ RunReturn(1)
    \/ SweepSteps(1)
    \/ CallRequestStop(2)

SpecStopRace == InitStopRace /\ [][NextStopRace]_vars

\* ------------------------------------------------------------------ service registry alone
\* Values a component or a service can hold.
Values == {1, 2}

\* An engine with one entity, a system and a service action that require only the
\* manager service, and a service action that requires S; no service installed yet.
InitServices ==
    /\ entities = Emplace(EmptyMap, 0, EntityTuple([t \in {"A"} |-> 1]))
    /\ systems = Emplace(EmptyMap, 0, [comps |-> {"A"}, svcs |-> {ManagerService},
                                       body |-> Nop, null |-> {}])
    /\ serviceActions = [a \in 0..1 |-> [svcs |-> IF a = 0 THEN {ManagerService} ELSE {"S"},
                                         body |-> Nop, null |-> {}]]
    /\ services = [t \in ServiceSlots |-> IF t = ManagerService THEN 1 ELSE Absent]
    /\ nextEntityID = 1
    /\ nextSystemID = 1
    /\ nextServiceActionID = 2
    /\ localContinue = FALSE
    /\ mainLoop = NoThread
    /\ InitThreads
    /\ schema = EngineSchema
    /\ InitObjects

\* One client thread installs and uninstalls services, whatever the slot it names,
\* and calls Sweep().
NextServices ==
    \/ \E t \in ServiceSlots, v \in Values : InstallService(1, t, v)
    \/ \E t \in ServiceSlots : UninstallService(1, t)
    \/ SweepCall(1)
    \/ SweepCallReturn(1)
    \/ SweepSteps(1)

SpecServices == InitServices /\ [][NextServices]_vars

\* ------------------------------------------------------------------ entity registry alone
\* A fresh engine.
InitEntities ==
    /\ InitEngine
    /\ InitThreads
    /\ schema = EngineSchema
    /\ InitObjects

\* One client thread registers systems over {A}, adds entities, removes entities and
\* installs and uninstalls components under any ID, issued or not, and calls Sweep().
NextEntities ==
    \/ AddSystem(1, {"A"}, {ManagerService}, Nop)
    \/ \E given \in GivenOver(Values) : AddEntity(1, given)
    \/ \E id \in EntityIDs : RemoveEntity(1, id)
    \/ \E id \in EntityIDs, t \in ComponentTypes, v \in Values : InstallComponent(1, id, t, v)
    \/ \E id \in EntityIDs, t \in ComponentTypes : UninstallComponent(1, id, t)
    \/ SweepCall(1)
    \/ SweepCallReturn(1)
    \/ SystemStep(1)
    \/ EntityStep(1)

SpecEntities == InitEntities /\ [][NextEntities]_vars

\* ------------------------------------------------------------------ all registries
\* One client thread calls the registry operations of a fresh engine in any order,
\* under any ID and any slot, and never sweeps; it registers one service action.
NextRegistry ==
    \/ \E given \in GivenOver({1}) : AddEntity(1, given)
    \/ \E id \in EntityIDs : RemoveEntity(1, id)
    \/ \E id \in EntityIDs, t \in ComponentTypes : InstallComponent(1, id, t, 1)
    \/ \E id \in EntityIDs, t \in ComponentTypes : UninstallComponent(1, id, t)
    \/ AddSystem(1, {"A"}, {ManagerService}, Nop)
    \/ \E id \in SystemIDs : RemoveSystem(1, id)
    \/ (serviceActions = EmptyMap /\ AddServiceAction(1, {"S"}, Nop))
    \/ \E t \in ServiceTypes : InstallService(1, t, 1)
    \/ \E t \in ServiceTypes : UninstallService(1, t)

SpecRegistry == Init /\ [][NextRegistry]_vars

\* ------------------------------------------------------------------ services changed in a sweep

\* One entity holding A; systems over {A} and service actions, some of which
\* install or uninstall S when invoked; S installed or not.
InitVisible ==
    LET
        VisibleSystems == {[comps |-> {"A"}, svcs |-> {"S"}, body |-> Nop, null |-> {}],
                           [comps |-> {"A"}, svcs |-> {ManagerService}, body |-> Nop, null |-> {}]}
        VisibleServiceActions == {[svcs |-> {"S"}, body |-> UninstallS, null |-> {}],
                                  [svcs |-> {ManagerService}, body |-> InstallS, null |-> {}],
                                  [svcs |-> {"S"}, body |-> Nop, null |-> {}]}
    IN
        /\ entities = Emplace(EmptyMap, 0, EntityTuple([t \in {"A"} |-> 1]))
        /\ systems \in MapsUpTo(MaxSystems, VisibleSystems)
        /\ serviceActions \in MapsUpTo(MaxServiceActions, VisibleServiceActions)
        /\ \E s \in {Absent, 1} :
              services = [t \in ServiceSlots |-> IF t = ManagerService THEN 1
                                                 ELSE IF t = "S" THEN s ELSE Absent]
        /\ nextEntityID = 1
        /\ nextSystemID = Cardinality(DOMAIN systems)
        /\ nextServiceActionID = Cardinality(DOMAIN serviceActions)
        /\ localContinue = FALSE
        /\ mainLoop = NoThread
        /\ InitThreads
        /\ schema = EngineSchema
        /\ InitObjects

NextVisible ==
    \/ SweepCall(1)
    \/ SweepCallReturn(1)
    \/ SweepSteps(1)

SpecVisible == InitVisible /\ [][NextVisible]_vars

\* ------------------------------------------------------------------ empty requirements
\* AddSystem with a function over (std::tuple<>, std::tuple<>) and AddServiceAction
\* with a function of no parameter: both packs deduce empty, the constraints hold
\* (Distinct<> is the primary template, the folds over nothing are true).

\* Any registries of such systems and service actions, any entities, S installed or not.
InitVacuous ==
    LET
        VacuousSystems == {[comps |-> {}, svcs |-> {}, body |-> Nop, null |-> {}],
                           [comps |-> {"A"}, svcs |-> {"S"}, body |-> Nop, null |-> {}]}
        VacuousServiceActions == {[svcs |-> {}, body |-> Nop, null |-> {}],
                                  [svcs |-> {"S"}, body |-> Nop, null |-> {}]}
    IN
        /\ entities \in MapsUpTo(MaxEntities, Rows)
        /\ systems \in MapsUpTo(MaxSystems, VacuousSystems)
        /\ serviceActions \in MapsUpTo(MaxServiceActions, VacuousServiceActions)
        /\ \E s \in {Absent, 1} :
              services = [t \in ServiceSlots |-> IF t = ManagerService THEN 1
                                                 ELSE IF t = "S" THEN s ELSE Absent]
        /\ nextEntityID = Cardinality(DOMAIN entities)
        /\ nextSystemID = Cardinality(DOMAIN systems)
        /\ nextServiceActionID = Cardinality(DOMAIN serviceActions)
        /\ localContinue = FALSE
        /\ mainLoop = NoThread
        /\ InitThreads
        /\ schema = EngineSchema
        /\ InitObjects

\* One client thread calls Sweep() again and again, installing and uninstalling S
\* in between.
NextVacuous ==
    \/ InstallService(1, "S", 1)
    \/ UninstallService(1, "S")
    \/ SweepCall(1)
    \/ SweepCallReturn(1)
    \/ SweepSteps(1)

SpecVacuous == InitVacuous /\ [][NextVacuous]_vars

\* ------------------------------------------------------------------ services changed in a system's pass

\* Any entities; systems some of which uninstall or install S when invoked on an
\* entity; S installed or not.
InitDrop ==
    LET
        DropSystems == {[comps |-> {"A"}, svcs |-> {"S"}, body |-> UninstallS, null |-> {}],
                        [comps |-> {"A"}, svcs |-> {"S"}, body |-> Nop, null |-> {}],
                        [comps |-> {"B"}, svcs |-> {ManagerService}, body |-> InstallS, null |-> {}]}
        DropServiceActions == {[svcs |-> {ManagerService}, body |-> InstallS, null |-> {}]}
    IN
        /\ entities \in MapsUpTo(MaxEntities, Rows)
        /\ systems \in MapsUpTo(MaxSystems, DropSystems)
        /\ serviceActions \in MapsUpTo(MaxServiceActions, DropServiceActions)
        /\ \E s \in {Absent, 1} :
              services = [t \in ServiceSlots |-> IF t = ManagerService THEN 1
                                                 ELSE IF t = "S" THEN s ELSE Absent]
        /\ nextEntityID = Cardinality(DOMAIN entities)
        /\ nextSystemID = Cardinality(DOMAIN systems)
        /\ nextServiceActionID = Cardinality(DOMAIN serviceActions)
        /\ localContinue = FALSE
        /\ mainLoop = NoThread
        /\ InitThreads
        /\ schema = EngineSchema
        /\ InitObjects

NextDrop ==
    \/ SweepCall(1)
    \/ SweepCallReturn(1)
    \/ SweepCallThrows(1)
    \/ SweepSteps(1)

SpecDrop == InitDrop /\ [][NextDrop]_vars

\* ------------------------------------------------------------------ ill-formed wrappers
\* Wrappers as the public constructors of SystemWrapper and ServiceActionWrapper
\* accept them: any of the std::function members may be empty. The registries are
\* protected members, so a class derived from the engine can store such a wrapper.

InitIllFormed ==
    LET
        IllFormedSystems ==
            {[comps |-> {"A"}, svcs |-> {ManagerService}, body |-> Nop, null |-> n] :
                n \in {{}, {"consumer"}, {"componentValidator"}, {"serviceValidator"}}}
        IllFormedServiceActions ==
            {[svcs |-> {ManagerService}, body |-> Nop, null |-> n] :
                n \in {{}, {"consumer"}, {"validator"}}}
    IN
        /\ entities \in MapsUpTo(MaxEntities, {EntityTuple([t \in {"A"} |-> 1])})
        /\ systems \in MapsUpTo(MaxSystems, IllFormedSystems)
        /\ serviceActions \in MapsUpTo(MaxServiceActions, IllFormedServiceActions)
        /\ services = [t \in ServiceSlots |-> IF t = ManagerService THEN 1 ELSE Absent]
        /\ nextEntityID = Cardinality(DOMAIN entities)
        /\ nextSystemID = Cardinality(DOMAIN systems)
        /\ nextServiceActionID = Cardinality(DOMAIN serviceActions)
        /\ localContinue = FALSE
        /\ mainLoop = NoThread
        /\ InitThreads
        /\ schema = EngineSchema
        /\ InitObjects

NextIllFormed ==
    \/ SweepCall(1)
    \/ SweepCallReturn(1)
    \/ SweepCallThrows(1)
    \/ SweepSteps(1)

SpecIllFormed == InitIllFormed /\ [][NextIllFormed]_vars

\* ------------------------------------------------------------------ registries changed by bodies
\* Systems over {A} whose bodies remove an entity or a system by its ID, the one
\* being processed or another one, and a service action that removes an entity.

InitRemoving ==
    LET
        RemovingBodies ==
            {RemoveEntityBody(n) : n \in EntityIDs} \cup {RemoveSystemBody(n) : n \in SystemIDs}
                \cup {Nop}
        RemovingSystems ==
            {[comps |-> {"A"}, svcs |-> {ManagerService}, body |-> b, null |-> {}] :
                b \in RemovingBodies}
        RemovingServiceActions ==
            {[svcs |-> {ManagerService}, body |-> RemoveEntityBody(0), null |-> {}]}
    IN
        /\ entities \in MapsUpTo(MaxEntities, {EntityTuple([t \in {"A"} |-> 1])})
        /\ systems \in MapsUpTo(MaxSystems, RemovingSystems)
        /\ serviceActions \in MapsUpTo(MaxServiceActions, RemovingServiceActions)
        /\ services = [t \in ServiceSlots |-> IF t = ManagerService THEN 1 ELSE Absent]
        /\ nextEntityID = Cardinality(DOMAIN entities)
        /\ nextSystemID = Cardinality(DOMAIN systems)
        /\ nextServiceActionID = Cardinality(DOMAIN serviceActions)
        /\ localContinue = FALSE
        /\ mainLoop = NoThread
        /\ InitThreads
        /\ schema = EngineSchema
        /\ InitObjects

\* One client thread calls Sweep(); the registries change only from the bodies.
NextRemoving ==
    \/ SweepCall(1)
    \/ SweepCallReturn(1)
    \/ SweepSteps(1)

SpecRemoving == InitRemoving /\ [][NextRemoving]_vars

\* ------------------------------------------------------------------ registries grown by bodies
\* What the system registered under ID s writes in A of the entities it adds.
Tag(s) == s + 2

\* Systems over {A} whose bodies add an entity holding A (tagged with the ID of the
\* system) or register a system over {B}, and one that does neither.

InitAdding ==
    LET
        AddingSystems ==
            {[comps |-> {"A"}, svcs |-> {ManagerService}, body |-> b, null |-> {}] :
                b \in {AddEntityBody(Tag(s)) : s \in SystemIDs} \cup {AddSystemBody, Nop}}
    IN
        /\ entities \in MapsUpTo(MaxEntities, Rows)
        /\ systems \in {f \in MapsUpTo(MaxSystems, AddingSystems) :
                           \A s \in DOMAIN f :
                               f[s].body.kind = "AddEntity" => f[s].body.n = Tag(s)}
        /\ serviceActions = EmptyMap
        /\ services = [t \in ServiceSlots |-> IF t = ManagerService THEN 1 ELSE Absent]
        /\ nextEntityID = Cardinality(DOMAIN entities)
        /\ nextSystemID = Cardinality(DOMAIN systems)
        /\ nextServiceActionID = 0
        /\ localContinue = FALSE
        /\ mainLoop = NoThread
        /\ InitThreads
        /\ schema = EngineSchema
        /\ InitObjects

\* One client thread calls Sweep(); the registries grow only from the bodies.
NextAdding ==
    \/ SweepCall(1)
    \/ SweepCallReturn(1)
    \/ SystemStep(1)
    \/ EntityStep(1)

SpecAdding == InitAdding /\ [][NextAdding]_vars

\* ------------------------------------------------------------------ declaring an engine
\* Every list of at most MaxTypeList types.
TypeLists == UNION {[1..n -> TypeNames] : n \in 0..MaxTypeList}

\* A translation unit names ECS<comps...>::WithServices<svcs...>; nothing is
\* constructed yet.
InitSchema ==
    /\ InitEngine
    /\ InitThreads
    /\ \E comps \in TypeLists, svcs \in TypeLists :
          schema = [comps |-> comps, svcs |-> svcs, verdict |-> "undecided"]
    /\ InitObjects

\* The compiler checks the constraints of the two templates.
Declare ==
    /\ schema.verdict = "undecided"
    /\ schema' = [schema EXCEPT !.verdict =
                     IF SchemaAccepted(schema.comps, schema.svcs) THEN "accepted"
                                                                  ELSE "rejected"]
    /\ UNCHANGED <<registryVars, controlVars, pc, sweep, result, gameVars>>

SpecSchema == InitSchema /\ [][Declare]_vars

\* ------------------------------------------------------------------ WindowService
\* Readings of SDL_GetTicks64() and values of _msPerFrame, and the most textures a
\* client pushes in one frame.
MaxTicks == 4
MaxPushed == 3

\* A slip of AcquireDrawFrame: the flag is the outcome of the test, so a frame
\* held is dropped when the test fails.
AcquireDrawFrameAssigning(c, now) ==
    /\ Idle(c)
    /\ window' = [window EXCEPT
                     !.onDrawFrame = (now - window.sinceCommit >= window.msPerFrame)]
    /\ Return(c, IF window'.onDrawFrame THEN "true" ELSE "false")
    /\ UNCHANGED <<registryVars, controlVars, pc, sweep, schema, assets, parser>>

\* AcquireDrawFrame(): now is what SDL_GetTicks64() reads, never less than an
\* earlier reading.
AcquireDrawFrame(c, now) ==
    /\ Idle(c)
    /\ window' = [window EXCEPT
                     !.onDrawFrame = IF now - window.sinceCommit >= window.msPerFrame
                                     THEN TRUE ELSE @]
    /\ Return(c, IF window'.onDrawFrame THEN "true" ELSE "false")
    /\ UNCHANGED <<registryVars, controlVars, pc, sweep, schema, assets, parser>>

\* PushTexture(texture, rect, angle): drawn is whether SDL_RenderCopyEx succeeds.
PushTexture(c, drawn) ==
    /\ Idle(c)
    /\ window.texturesPushed < MaxPushed
    /\ IF ~window.onDrawFrame
       THEN UNCHANGED window /\ Return(c, "false")
       ELSE IF ~drawn
       THEN UNCHANGED window /\ Return(c, "false")
       ELSE /\ window' = [window EXCEPT !.texturesPushed = @ + 1]
            /\ Return(c, "true")
    /\ UNCHANGED <<registryVars, controlVars, pc, sweep, schema, assets, parser>>

\* Commit()
Commit(c, now) ==
    /\ Idle(c)
    /\ IF ~window.onDrawFrame
       THEN UNCHANGED window
       ELSE window' = [window EXCEPT !.sinceCommit = now, !.texturesPushed = 0,
                                     !.onDrawFrame = FALSE]
    /\ Return(c, "ok")
    /\ UNCHANGED <<registryVars, controlVars, pc, sweep, schema, assets, parser>>

\* A window of any frame period, just constructed.
InitWindow ==
    /\ InitEngine
    /\ InitThreads
    /\ schema = EngineSchema
    /\ \E ms \in 0..MaxTicks : window = NewWindow(ms)
    /\ assets = NewAssets
    /\ parser = NoParser

\* One thread draws: it calls the three operations in any order at any time.
NextWindow ==
    \/ \E now \in window.sinceCommit..MaxTicks : AcquireDrawFrame(1, now)
    \/ \E drawn \in BOOLEAN : PushTexture(1, drawn)
    \/ \E now \in window.sinceCommit..MaxTicks : Commit(1, now)

SpecWindow == InitWindow /\ [][NextWindow]_vars

\* ------------------------------------------------------------------ AssetStore
\* The most textures created, and the nicknames the clients use.
MaxTextures == 3
Nicknames == {"a", "b", "c", "d"}

\* LoadFont(filepath, fontSize, color): opened is whether TTF_OpenFont succeeds; a
\* failure keeps the font there was.
LoadFont(c, opened) ==
    /\ Idle(c)
    /\ assets' = [assets EXCEPT !.font = IF opened THEN TRUE ELSE @]
    /\ Return(c, IF opened THEN "ok" ELSE "null")
    /\ UNCHANGED <<registryVars, controlVars, pc, sweep, schema, window, parser>>

\* A slip of LoadImage: a load that fails leaves the slot it reserved.
LoadImageLeaking(c, nickname, loaded) ==
    /\ Idle(c)
    /\ loaded => assets.made < MaxTextures
    /\ LET reserved == Emplace(assets.textures, nickname, Absent) IN
       IF nickname \in DOMAIN assets.textures
       THEN UNCHANGED assets /\ Return(c, "null")
       ELSE IF ~loaded
       THEN assets' = [assets EXCEPT !.textures = reserved] /\ Return(c, "null")
       ELSE /\ assets' = [assets EXCEPT
                             !.textures = [reserved EXCEPT ![nickname] = assets.made],
                             !.made = @ + 1]
            /\ ReturnID(c, assets.made)
    /\ UNCHANGED <<registryVars, controlVars, pc, sweep, schema, window, parser>>

\* LoadImage(window, filepath, nickname): try_emplace(nickname, nullptr) reserves
\* the slot unless the nickname is taken; loaded is whether IMG_LoadTexture
\* succeeds; the texture created is a new one (assets.made counts them).
LoadImage(c, nickname, loaded) ==
    /\ Idle(c)
    /\ loaded => assets.made < MaxTextures
    /\ LET reserved == Emplace(assets.textures, nickname, Absent) IN
       IF nickname \in DOMAIN assets.textures
       THEN UNCHANGED assets /\ Return(c, "null")
       ELSE IF ~loaded
       THEN assets' = [assets EXCEPT !.textures = Erase(reserved, nickname)]
            /\ Return(c, "null")
       ELSE /\ assets' = [assets EXCEPT
                             !.textures = [reserved EXCEPT ![nickname] = assets.made],
                             !.made = @ + 1]
            /\ ReturnID(c, assets.made)
    /\ UNCHANGED <<registryVars, controlVars, pc, sweep, schema, window, parser>>

\* LoadText(window, text, nickname, size): nothing is reserved without a font;
\* rendered tells how far the rendering gets (TTF_RenderText_Solid, then
\* SDL_CreateTextureFromSurface).
LoadText(c, nickname, rendered) ==
    /\ Idle(c)
    /\ rendered = "ok" => assets.made < MaxTextures
    /\ LET reserved == Emplace(assets.textures, nickname, Absent) IN
       IF ~assets.font
       THEN UNCHANGED assets /\ Return(c, "null")
       ELSE IF nickname \in DOMAIN assets.textures
       THEN UNCHANGED assets /\ Return(c, "null")
       ELSE IF rendered \in {"no surface", "no texture"}
       THEN assets' = [assets EXCEPT !.textures = Erase(reserved, nickname)]
            /\ Return(c, "null")
       ELSE /\ assets' = [assets EXCEPT
                             !.textures = [reserved EXCEPT ![nickname] = assets.made],
                             !.made = @ + 1]
            /\ ReturnID(c, assets.made)
    /\ UNCHANGED <<registryVars, controlVars, pc, sweep, schema, window, parser>>

\* GetTexture(nickname): the pointer stored under the nickname, null if there is
\* none (Absent in a slot is the null pointer of a reserved slot).
GetTexture(c, nickname) ==
    /\ Idle(c)
    /\ IF nickname \in DOMAIN assets.textures /\ assets.textures[nickname] # Absent
       THEN ReturnID(c, assets.textures[nickname])
       ELSE Return(c, "null")
    /\ UNCHANGED <<registryVars, controlVars, pc, sweep, schema, gameVars>>

\* An empty asset store.
InitAssets ==
    /\ InitEngine
    /\ InitThreads
    /\ schema = EngineSchema
    /\ InitObjects

\* One thread loads a font, images and texts under any nickname, with any outcome
\* of the libraries, and looks textures up.
NextAssets ==
    \/ \E opened \in BOOLEAN : LoadFont(1, opened)
    \/ \E n \in Nicknames, loaded \in BOOLEAN : LoadImage(1, n, loaded)
    \/ \E n \in Nicknames, rendered \in {"no surface", "no texture", "ok"} :
          LoadText(1, n, rendered)
    \/ \E n \in Nicknames : GetTexture(1, n)

SpecAssets == InitAssets /\ [][NextAssets]_vars

\* ------------------------------------------------------------------ ParseConfig
\* Longest configuration file, in lines.
MaxLines == 4

\* The files: a line is its first token (first: "" when the line holds no token,
\* "#" for any token that names no object) and whether what follows it is what the
\* parser of that object accepts (rest).
Configs ==
    LET Line == {[first |-> f, rest |-> r] : f \in {"window", "font", "entity"},
                                             r \in {"ok", "bad"}}
                    \cup {[first |-> "#", rest |-> "ok"], [first |-> "", rest |-> "ok"]}
    IN  UNION {[1..n -> Line] : n \in 0..MaxLines}

\* lineStream >> objectName: the sentry skips white space; when it finds no
\* character it sets failbit and the string is not touched (str.erase() is called
\* only under a good sentry), so objectName keeps the token of an earlier line.
Extract(line, objectName) == IF line.first = "" THEN objectName ELSE line.first

\* A slip of the order tests: a font line is accepted before the window's.
OrderErrorFontFirst(objectName, windowParsed, fontParsed) ==
    IF objectName = "window" /\ windowParsed THEN "Window config appears more than once"
    ELSE IF objectName = "font" /\ fontParsed THEN "Font config appears more than once"
    ELSE IF objectName = "entity" /\ ~windowParsed THEN "Entity config appears before window's"
    ELSE IF objectName = "entity" /\ ~fontParsed THEN "Entity config appears before font's"
    ELSE "none"

\* The tests at the head of the three branches of the loop: what they throw.
OrderError(objectName, windowParsed, fontParsed) ==
    IF objectName = "window" /\ windowParsed THEN "Window config appears more than once"
    ELSE IF objectName = "font" /\ fontParsed THEN "Font config appears more than once"
    ELSE IF objectName = "font" /\ ~windowParsed THEN "Font config before window's"
    ELSE IF objectName = "entity" /\ ~windowParsed THEN "Entity config appears before window's"
    ELSE IF objectName = "entity" /\ ~fontParsed THEN "Entity config appears before font's"
    ELSE "none"

\* One turn of the loop of ParseConfig: std::getline, the extraction of objectName,
\* and the branch it selects. The stream handed to ParseWindow, ParseFont or
\* ParseEntity has failed when the line held no token, so they fail at their first
\* extraction. created: whether the WindowService constructor succeeds; opened,
\* loaded, rendered: whether TTF_OpenFont, IMG_LoadTexture and the text rendering
\* do. Every entity line names the image "a" and the text "b".
ParseLine(c) ==
    /\ parser.st = "reading"
    /\ parser.lineNum < Len(parser.lines)
    /\ LET line == parser.lines[parser.lineNum + 1]
           objectName == Extract(line, parser.objectName)
           err == OrderError(objectName, parser.windowParsed, parser.fontParsed)
           wellFormed == line.first # "" /\ line.rest = "ok"
           Throw(e) == /\ parser' = [parser EXCEPT !.objectName = objectName,
                                                   !.st = "threw", !.err = e]
                       /\ Return(c, e)
                       /\ UNCHANGED <<window, assets, entities, nextEntityID>>
           Go(w, f) == /\ parser' = [parser EXCEPT !.objectName = objectName,
                                                   !.lineNum = @ + 1,
                                                   !.windowParsed = w, !.fontParsed = f]
                       /\ UNCHANGED result
       IN  IF err # "none" THEN Throw(err)
           ELSE IF objectName = "window"
           THEN \E created \in BOOLEAN :
                   IF ~wellFormed THEN Throw("Unable to parse window")
                   ELSE IF ~created THEN Throw("Unable to create window")
                   ELSE /\ window' = NewWindow(1)
                        /\ Go(TRUE, parser.fontParsed)
                        /\ UNCHANGED <<assets, entities, nextEntityID>>
           ELSE IF objectName = "font"
           THEN \E opened \in BOOLEAN :
                   IF ~wellFormed THEN Throw("Unable to parse font")
                   ELSE /\ assets' = [assets EXCEPT !.font = IF opened THEN TRUE ELSE @]
                        /\ Go(parser.windowParsed, TRUE)
                        /\ UNCHANGED <<window, entities, nextEntityID>>
           ELSE IF objectName = "entity"
           THEN \E loaded \in BOOLEAN, rendered \in BOOLEAN :
                   LET image == "a" \in DOMAIN assets.textures \/ loaded
                       withImage ==
                           IF "a" \in DOMAIN assets.textures THEN assets
                           ELSE [assets EXCEPT !.textures = Emplace(@, "a", assets.made),
                                               !.made = @ + 1]
                       text == "b" \in DOMAIN assets.textures \/ (assets.font /\ rendered)
                       withText ==
                           IF "b" \in DOMAIN withImage.textures THEN withImage
                           ELSE [withImage EXCEPT
                                    !.textures = Emplace(@, "b", withImage.made),
                                    !.made = @ + 1]
                   IN  /\ Go(parser.windowParsed, parser.fontParsed)
                       /\ UNCHANGED window
                       /\ IF ~wellFormed
                          THEN UNCHANGED <<assets, entities, nextEntityID>>
                          ELSE IF ~image
                          THEN UNCHANGED <<assets, entities, nextEntityID>>
                          ELSE IF ~text
                          THEN assets' = withImage /\ UNCHANGED <<entities, nextEntityID>>
                          ELSE /\ nextEntityID < MaxEntities
                               /\ assets' = withText
                               /\ entities' = Emplace(entities, nextEntityID,
                                                 EntityTuple([t \in ComponentTypes |-> 1]))
                               /\ nextEntityID' = nextEntityID + 1
           ELSE /\ Go(parser.windowParsed, parser.fontParsed)
                /\ UNCHANGED <<window, assets, entities, nextEntityID>>
    /\ UNCHANGED <<systems, serviceActions, services, nextSystemID, nextServiceActionID,
                   controlVars, pc, sweep, schema>>

\* The loop ends when std::getline finds no further line; the window is returned.
ParseReturn(c) ==
    /\ parser.st = "reading"
    /\ parser.lineNum = Len(parser.lines)
    /\ parser' = [parser EXCEPT !.st = "returned"]
    /\ Return(c, "ok")
    /\ UNCHANGED <<registryVars, controlVars, pc, sweep, schema, window, assets>>

\* ParseConfig has opened a file of any lines and is about to read the first.
InitParse ==
    /\ InitEngine
    /\ InitThreads
    /\ schema = EngineSchema
    /\ window = NewWindow(1)
    /\ assets = NewAssets
    /\ \E lines \in Configs : parser = [NoParser EXCEPT !.lines = lines, !.st = "reading"]

NextParse == ParseLine(1) \/ ParseReturn(1)

SpecParse == InitParse /\ [][NextParse]_vars

\* ------------------------------------------------------------------ properties
\* The invocations of a sweep, read off its log: <<0, action, End>> for a service
\* action, <<1, system, entity>> for a system on an entity.
Log(th) == sweep[th].log
LogSet(th) == {Log(th)[i] : i \in 1..Len(Log(th))}
LogBefore(x, y) ==
    \/ x[1] < y[1]
    \/ x[1] = y[1] /\ x[2] < y[2]
    \/ x[1] = y[1] /\ x[2] = y[2] /\ x[3] < y[3]
Visited(th, s) == {x[3] : x \in {y \in LogSet(th) : y[1] = 1 /\ y[2] = s}}
Installed(svcs) == \A t \in svcs : services[t] # Absent
Holding(comps) == {e \in DOMAIN entities : \A t \in comps : entities[e][t] # Absent}

\* C1: within one sweep the invocations come in a fixed order: service actions
\* before systems, service actions by ascending ID, systems by ascending ID, and
\* the entities of one system by ascending ID, whatever Add/Remove left behind.
C1_SweepOrdered ==
    \A th \in Threads : \A i, j \in 1..Len(Log(th)) :
        i < j => LogBefore(Log(th)[i], Log(th)[j])

\* A finished sweep of two service actions and of a system that is left after the
\* system with ID 0 was removed, over two entities.
C1_Witness ==
    /\ sweep[1].phase = "done"
    /\ 0 \notin DOMAIN systems
    /\ Len(Log(1)) = 4
    /\ Log(1)[2][1] = 0
    /\ Log(1)[3][1] = 1

\* C2: when a sweep is over, each system has been invoked exactly once on each
\* entity holding all its required components, and on no other entity, if its
\* required services are installed; and on no entity at all if one is not.
C2_SystemFiresOnMatches ==
    \A th \in Threads : sweep[th].phase = "done" =>
        /\ \A s \in DOMAIN systems :
              Visited(th, s) = IF Installed(systems[s].svcs)
                               THEN Holding(systems[s].comps) ELSE {}
        /\ Cardinality(LogSet(th)) = Len(Log(th))

\* A finished sweep in which a system over {A, B} was invoked on one entity and
\* not on another.
C2_Witness ==
    /\ sweep[1].phase = "done"
    /\ \E s \in DOMAIN systems :
          /\ systems[s].comps = {"A", "B"}
          /\ Visited(1, s) # {}
          /\ Visited(1, s) # DOMAIN entities

\* Every invocation a whole sweep makes on the registries as they are.
FullSweep ==
    {<<0, a, End>> : a \in {b \in DOMAIN serviceActions : Installed(serviceActions[b].svcs)}}
    \cup UNION {{<<1, s, e>> : e \in Holding(systems[s].comps)} :
                  s \in {r \in DOMAIN systems : Installed(systems[r].svcs)}}

\* C3: a RequestStop() made by a behaviour function during a sweep of Run() does
\* not cut the sweep short: Run() stays in the sweep until it is over, the sweep
\* makes every invocation it owes, and the next thing Run() does is return.
C3_StopAfterSweep ==
    [][/\ (pc[1].op = "run_loop" /\ Sweeping(1)) =>
             /\ pc'[1].op = "run_loop"
             /\ sweep'[1].phase \in {"sa", "sys", "ent", "done"}
             /\ SubSeq(sweep'[1].log, 1, Len(Log(1))) = Log(1)
       /\ (sweep'[1].phase = "done" /\ sweep'[1].stopAt > 0) =>
             /\ {sweep'[1].log[i] : i \in 1..Len(sweep'[1].log)} = FullSweep
             /\ Len(sweep'[1].log) = Cardinality(FullSweep)
       /\ (pc[1].op = "run_loop" /\ sweep[1].phase = "done" /\ sweep[1].stopAt > 0) =>
             /\ pc'[1].op = "idle"
             /\ result'[1].res = "ok"
      ]_vars

\* Run() is at the end of a sweep in which the stop was asked for before the last
\* invocation.
C3_Witness ==
    /\ pc[1].op = "run_loop"
    /\ sweep[1].phase = "done"
    /\ sweep[1].stopAt > 0
    /\ sweep[1].stopAt < Len(Log(1))

\* C4: RequestStop() answers true exactly when a Run() loop or a dispatched worker
\* was active when it was called.
C4_StopAnswersActive == lastStop.called => (lastStop.ret <=> lastStop.active)

\* C5: while _mainLoop holds a dispatched worker, no new worker is spawned and the
\* worker is not replaced by another.
C5_NoSecondDispatch ==
    [][Joinable =>
          /\ \A w \in Workers : worker[w].st = "unused" => worker'[w].st = "unused"
          /\ mainLoop' \in {mainLoop, NoThread}
      ]_vars

\* C6: with a dispatched worker in _mainLoop, Run() does not get past its test,
\* and the failing call changes neither a registry nor a flag nor a sweep.
C6_RunRejectedWhileDispatched ==
    [][\A c \in Callers :
          /\ (Idle(c) /\ Joinable) => pc'[c].op \notin RunOps
          /\ (result'[c].res = "AlreadyDispatched" /\ result[c].res # "AlreadyDispatched") =>
                /\ Joinable
                /\ UNCHANGED <<registryVars, controlVars, pc, sweep>>
      ]_vars

\* A Run() has failed while the worker in _mainLoop is sweeping.
C6_Witness ==
    /\ result[1].res = "AlreadyDispatched"
    /\ Joinable
    /\ Sweeping(mainLoop)

\* C7: at most one thread is inside Sweep() on the engine.
C7_SingleSweeper == Cardinality({th \in Threads : Sweeping(th)}) <= 1

\* C8: AwaitStop() with nothing in _mainLoop fails at once and waits for nothing;
\* with a worker in it, it returns only when that worker has left its loop, and a
\* worker that has left its loop never sweeps again.
C8_AwaitStop ==
    [][/\ \A c \in Callers :
             /\ (Idle(c) /\ ~Joinable) => pc'[c].op # "await_join"
             /\ (result'[c].res = "NotDispatched" /\ result[c].res # "NotDispatched") =>
                   ~Joinable /\ pc'[c] = pc[c]
             /\ (pc[c].op = "await_join" /\ pc'[c].op = "idle") =>
                   worker[pc[c].w].st \in {"done", "joined"}
       /\ \A w \in Workers :
             worker[w].st \in {"done", "joined"} =>
                /\ worker'[w].st \in {"done", "joined"}
                /\ sweep'[w].phase = "none"
      ]_vars

\* An AwaitStop() has returned: its worker is joined and _mainLoop is empty again.
C8_Witness ==
    /\ Idle(1) /\ result[1].res = "ok"
    /\ mainLoop = NoThread
    /\ \E w \in Workers : worker[w].st = "joined"

\* C9: RequestStop() from the controlling thread reaches the worker in _mainLoop;
\* a worker whose stop was requested starts no further sweep and leaves its loop,
\* and an AwaitStop() waiting for it returns.
C9_StopEndsWorker ==
    /\ [][/\ (Idle(1) /\ Joinable /\ lastStop' # lastStop) => worker'[mainLoop].stop
          /\ \A w \in Workers :
                (worker[w].stop /\ ~Sweeping(w)) =>
                    sweep'[w].phase \in {"none", "done"}
         ]_vars
    /\ \A w \in Workers : worker[w].stop ~> worker[w].st \in {"done", "joined"}
    /\ (pc[1].op = "await_join" /\ worker[pc[1].w].stop) ~> Idle(1)

\* The controlling thread waits in AwaitStop() for a worker that was asked to stop
\* in the middle of a sweep.
C9_Witness ==
    /\ pc[1].op = "await_join"
    /\ lastStop.called /\ lastStop.ret
    /\ worker[pc[1].w].stop
    /\ Sweeping(pc[1].w)

\* The counting scenario: the entities holding the rank, and the threshold.
Ranked == {e \in DOMAIN entities : entities[e]["A"] # Absent}
Threshold == systems[0].body.n
RunReturned == Idle(1) /\ result[1].res = "ok"

\* C10 as stated: Run() returns after exactly N invocations of the system.
C10_ExactlyThreshold == RunReturned => services["Counter"] = Threshold

\* C10 as amended: Run() returns after the sweep in which the counter reaches N is
\* over, that is after the first multiple of k that is at least N invocations; the
\* entity without the rank is never visited.
C10_StopsAfterSweep ==
    LET k == Cardinality(Ranked) IN
    /\ RunReturned => services["Counter"] = k * ((Threshold + k - 1) \div k)
    /\ \A x \in LogSet(1) : x[3] \in Ranked
    /\ services["Counter"] <= k * ((Threshold + k - 1) \div k)

\* Run() has returned with three ranked entities and a threshold that is not a
\* multiple of three.
C10_Witness ==
    /\ RunReturned
    /\ Cardinality(Ranked) = 3
    /\ Threshold % 3 # 0

\* C11: a RequestStop() made by a body reaches the loop that runs the body: asked
\* from a sweep of Run() it clears _localContinue, asked from a sweep of a dispatched
\* worker it sets that worker's stop signal, whenever in the worker's life it is asked.
C11_StopReachesOwnLoop ==
    [][\A th \in Threads :
          (Sweeping(th) /\ sweep[th].stopAt = 0 /\ sweep'[th].stopAt > 0) =>
             IF th \in Workers THEN worker'[th].stop ELSE ~localContinue'
      ]_vars

\* What one kind of Add* owes: the ID returned is the counter's value, which is
\* above every ID in the registry, the counter moves past it, the registry gains
\* exactly that ID, and the two other counters stay.
IssuesID(registry, registryAfter, counter, counterAfter, others) ==
    /\ result'[1] = [res |-> "ok", id |-> counter]
    /\ \A k \in DOMAIN registry : k < counter
    /\ counterAfter = counter + 1
    /\ DOMAIN registryAfter = DOMAIN registry \cup {counter}
    /\ others

\* C12: each Add* returns the value of its own counter, which only grows and is
\* above every ID issued before (the IDs issued are 0 .. counter - 1), so no ID
\* comes back after a removal; a step moves at most one counter, and a removal
\* moves none.
C12_FreshIndependentIDs ==
    /\ [][/\ nextEntityID' # nextEntityID =>
                IssuesID(entities, entities', nextEntityID, nextEntityID',
                         UNCHANGED <<nextSystemID, nextServiceActionID>>)
          /\ nextSystemID' # nextSystemID =>
                IssuesID(systems, systems', nextSystemID, nextSystemID',
                         UNCHANGED <<nextEntityID, nextServiceActionID>>)
          /\ nextServiceActionID' # nextServiceActionID =>
                IssuesID(serviceActions, serviceActions', nextServiceActionID,
                         nextServiceActionID',
                         UNCHANGED <<nextEntityID, nextSystemID>>)
          /\ DOMAIN entities' \subseteq DOMAIN entities \/ nextEntityID' # nextEntityID
          /\ DOMAIN systems' \subseteq DOMAIN systems \/ nextSystemID' # nextSystemID
          /\ DOMAIN serviceActions' \subseteq DOMAIN serviceActions
                \/ nextServiceActionID' # nextServiceActionID
         ]_vars
    /\ [](/\ \A k \in DOMAIN entities : k < nextEntityID
          /\ \A k \in DOMAIN systems : k < nextSystemID
          /\ \A k \in DOMAIN serviceActions : k < nextServiceActionID)

\* After system 0 was removed, the next AddSystem has returned 1, while no entity
\* has been added.
C12_Witness ==
    /\ result[1] = [res |-> "ok", id |-> 1]
    /\ DOMAIN systems = {1}
    /\ nextSystemID = 2
    /\ nextEntityID = 0

\* C13: the manager's slot holds, in every state, the value the constructor put
\* there, whatever InstallService and UninstallService are asked; a service action
\* and a system that require only the manager are invoked in every sweep.
C13_ManagerAlwaysInstalled ==
    /\ services[ManagerService] = 1
    /\ sweep[1].phase = "done" => {<<0, 0, End>>, <<1, 0, 0>>} \subseteq LogSet(1)

\* A sweep is over, after services were installed and uninstalled, in which the
\* action requiring S was skipped and the two requiring the manager were invoked.
C13_Witness ==
    /\ sweep[1].phase = "done"
    /\ services["S"] = Absent
    /\ services["Counter"] = 2
    /\ Log(1) = <<(<<0, 0, End>>), (<<1, 0, 0>>)>>

\* C15: InstallService on an occupied slot fails with AlreadyInstalled and keeps
\* the value; on an empty slot it stores the value given and touches no other slot.
\* UninstallService on an empty slot fails with AlreadyUninstalled; on an occupied
\* slot it empties that slot only. A slot holds one value or none.
C15_ServiceLaws ==
    /\ [][\A t \in ServiceTypes :
             /\ \A v \in Values : InstallService(1, t, v) =>
                   IF services[t] # Absent
                   THEN result'[1].res = "AlreadyInstalled" /\ services' = services
                   ELSE /\ result'[1].res = "ok"
                        /\ services'[t] = v
                        /\ \A u \in ServiceSlots \ {t} : services'[u] = services[u]
             /\ UninstallService(1, t) =>
                   IF services[t] = Absent
                   THEN result'[1].res = "AlreadyUninstalled" /\ services' = services
                   ELSE /\ result'[1].res = "ok"
                        /\ services'[t] = Absent
                        /\ \A u \in ServiceSlots \ {t} : services'[u] = services[u]
         ]_vars
    /\ [](\A t \in ServiceTypes : services[t] \in Values \cup {Absent})

\* A second InstallService of S has failed and S still holds the value 2.
C15_Witness ==
    /\ result[1].res = "AlreadyInstalled"
    /\ services["S"] = 2
    /\ services["Counter"] = Absent

\* The rows other than one, and the slots other than one, are what they were.
OtherRowsKept(id) ==
    \A k \in DOMAIN entities \ {id} : k \in DOMAIN entities' /\ entities'[k] = entities[k]
OtherSlotsKept(id, t) ==
    \A u \in ComponentTypes \ {t} : entities'[id][u] = entities[id][u]

C16_RemoveEntity ==
    /\ [][\A id \in EntityIDs : RemoveEntity(1, id) =>
             IF id \in DOMAIN entities
             THEN /\ result'[1].res = "ok"
                  /\ DOMAIN entities' = DOMAIN entities \ {id}
                  /\ OtherRowsKept(id)
                  /\ UNCHANGED <<systems, serviceActions, services, nextEntityID,
                                 nextSystemID, nextServiceActionID, controlVars>>
             ELSE /\ result'[1].res = "InvalidEntity"
                  /\ UNCHANGED <<registryVars, controlVars, pc, sweep>>
         ]_vars
    /\ [](\A x \in LogSet(1) : x[3] \in DOMAIN entities)

\* A sweep made after entity 0 was removed is over and has visited entity 1 only.
C16_Witness ==
    /\ sweep[1].phase = "done"
    /\ DOMAIN entities = {1}
    /\ Log(1) = <<(<<1, 0, 1>>)>>

\* C18: AddEntity stores under the new ID a row with one slot per declared
\* component type, holding the value given for each type given and nothing for
\* the others, and keeps every other row.
C18_AddEntityRow ==
    [][\A given \in GivenOver(Values) : AddEntity(1, given) =>
          /\ result'[1] = [res |-> "ok", id |-> nextEntityID]
          /\ DOMAIN entities' = DOMAIN entities \cup {nextEntityID}
          /\ DOMAIN entities'[nextEntityID] = ComponentTypes
          /\ \A t \in DOMAIN given : entities'[nextEntityID][t] = given[t]
          /\ \A t \in ComponentTypes \ DOMAIN given : entities'[nextEntityID][t] = Absent
          /\ OtherRowsKept(nextEntityID)
      ]_vars

\* The registry holds a row with every slot empty and a row with B only.
C18_Witness ==
    /\ \E id \in DOMAIN entities : \A t \in ComponentTypes : entities[id][t] = Absent
    /\ \E id \in DOMAIN entities : entities[id]["A"] = Absent /\ entities[id]["B"] = 2

\* C17: a client outside every call can remove a service action under any ID: the
\* call either removes the registration or fails with InvalidServiceAction.
C17_ServiceActionRemovable ==
    Idle(1) => \A id \in 0..(MaxServiceActions - 1) : ENABLED RemoveServiceAction(1, id)

\* In a finished sweep: service action a was invoked; a service action between a
\* and b with the given body.
InvokedAction(a) == <<0, a, End>> \in LogSet(1)
InvokedSystem(s) == \E e \in DOMAIN entities : <<1, s, e>> \in LogSet(1)
ActionsAfter(a, body) == {c \in DOMAIN serviceActions : c > a /\ serviceActions[c].body = body}

\* C19: when a sweep is over, after an invoked service action that uninstalled S
\* every later service action and every system that requires S was skipped, and
\* after one that installed S they were all invoked, in that same sweep, up to the
\* next service action that changes S the other way.
C19_ChangesSeenInSweep ==
    sweep[1].phase = "done" =>
       \A a \in DOMAIN serviceActions : InvokedAction(a) =>
          /\ serviceActions[a].body = UninstallS =>
                /\ \A b \in DOMAIN serviceActions :
                      (b > a /\ "S" \in serviceActions[b].svcs
                         /\ \A c \in ActionsAfter(a, InstallS) : c > b)
                      => ~InvokedAction(b)
                /\ \A s \in DOMAIN systems :
                      ("S" \in systems[s].svcs /\ ActionsAfter(a, InstallS) = {})
                      => ~InvokedSystem(s)
          /\ serviceActions[a].body = InstallS =>
                /\ \A b \in DOMAIN serviceActions :
                      (b > a /\ "S" \in serviceActions[b].svcs
                         /\ \A c \in ActionsAfter(a, UninstallS) : c >= b)
                      => InvokedAction(b)
                /\ \A s \in DOMAIN systems :
                      ("S" \in systems[s].svcs /\ ActionsAfter(a, UninstallS) = {})
                      => InvokedSystem(s)

\* A sweep that began with S installed is over: action 0 uninstalled S, and action
\* 1 and system 0, which require S, were skipped in it.
C19_Witness ==
    /\ sweep[1].phase = "done"
    /\ DOMAIN serviceActions = {0, 1}
    /\ 0 \in DOMAIN systems
    /\ serviceActions[0].body = UninstallS
    /\ serviceActions[1].body = Nop
    /\ systems[0].svcs = {"S"}
    /\ Log(1) = <<(<<0, 0, End>>)>>

\* The types of a list, and a list without a repeated type.
Elements(Types) == {Types[i] : i \in 1..Len(Types)}
PairwiseDistinct(Types) == \A i, j \in 1..Len(Types) : i # j => Types[i] # Types[j]

\* Every type named in one list only is of that list's kind.
KindsFit ==
    /\ \A t \in Elements(schema.comps) \ Elements(schema.svcs) : Bases(t) = {"Component"}
    /\ \A t \in Elements(schema.svcs) \ Elements(schema.comps) : Bases(t) = {"Service"}

\* C20: are_distinct is true of a type list exactly when no type is repeated in it,
\* the empty and the one-type list included; and a declaration whose types are of
\* their list's kind is accepted exactly when neither list repeats a type and no
\* type is in both.
C20_DistinctSchema ==
    /\ are_distinct(schema.comps) <=> PairwiseDistinct(schema.comps)
    /\ are_distinct(schema.svcs) <=> PairwiseDistinct(schema.svcs)
    /\ (schema.verdict # "undecided" /\ KindsFit) =>
          (schema.verdict = "accepted" <=>
              /\ PairwiseDistinct(schema.comps)
              /\ PairwiseDistinct(schema.svcs)
              /\ Elements(schema.comps) \cap Elements(schema.svcs) = {})

\* A declaration that repeats a component type with another type in between has
\* been rejected.
C20_Witness ==
    /\ schema.verdict = "rejected"
    /\ schema.comps = <<"A", "B", "A">>
    /\ schema.svcs = <<"S">>


\* How many times a sweep has made the invocation x.
Times(th, x) == Cardinality({i \in 1..Len(Log(th)) : Log(th)[i] = x})

\* C21: when a sweep is over, a system that requires no component and no service
\* has been invoked exactly once on every entity of the registry (on none when the
\* registry is empty), and a service action that requires no service has been
\* invoked exactly once, whichever services are installed.
C21_VacuousMatch ==
    sweep[1].phase = "done" =>
        /\ \A s \in DOMAIN systems :
              (systems[s].comps = {} /\ systems[s].svcs = {}) =>
                  /\ \A e \in DOMAIN entities : Times(1, <<1, s, e>>) = 1
                  /\ Visited(1, s) = DOMAIN entities
        /\ \A a \in DOMAIN serviceActions :
              serviceActions[a].svcs = {} => Times(1, <<0, a, End>>) = 1

\* A finished sweep, with S not installed, in which a system without requirements
\* was invoked on an entity holding no component and a service action without
\* requirements was invoked.
C21_Witness ==
    /\ sweep[1].phase = "done"
    /\ services["S"] = Absent
    /\ \E a \in DOMAIN serviceActions :
          serviceActions[a].svcs = {} /\ <<0, a, End>> \in LogSet(1)
    /\ \E s \in DOMAIN systems, e \in DOMAIN entities :
          /\ systems[s].comps = {} /\ systems[s].svcs = {}
          /\ \A t \in ComponentTypes : entities[e][t] = Absent
          /\ <<1, s, e>> \in LogSet(1)


\* The wrapper a sweep is about to evaluate does not match: a service action or a
\* system one of whose services is not installed, or an entity that lacks a
\* component of the system whose loop it is in.
Mismatch(th) ==
    LET p == sweep[th] IN
    \/ p.phase = "sa" /\ ~Installed(serviceActions[p.sa].svcs)
    \/ p.phase = "sys" /\ ~Installed(systems[p.sys].svcs)
    \/ p.phase = "ent" /\ p.ent \notin Holding(systems[p.sys].comps)

\* C22: in an engine built through the public Add*, Remove*, Install* and
\* Uninstall* operations, with bodies that leave the registries alone, Sweep()
\* raises no error: every registered wrapper is well formed, a sweep under way can
\* always take its next step, it is never left by an exception, and a call of
\* Sweep() never returns an error; a step on a service action, system or entity that
\* does not match invokes nothing and changes nothing but the position of the sweep.
C22_SweepRaisesNothing ==
    /\ [](/\ \A s \in DOMAIN systems : AssertValid(systems[s])
          /\ \A a \in DOMAIN serviceActions : AssertValid(serviceActions[a])
          /\ sweep[1].phase \in {"none", "sa", "sys", "ent", "done"}
          /\ sweep[1].err = "none"
          /\ result[1].res \notin {"IllFormedRegistration", "bad_optional_access"}
          /\ Sweeping(1) => ENABLED SweepSteps(1))
    /\ [][/\ SweepCallReturn(1) => result'[1].res = "ok"
          /\ (SweepSteps(1) /\ Mismatch(1)) =>
                /\ sweep'[1].log = sweep[1].log
                /\ sweep'[1].phase \in {"sa", "sys", "ent", "done"}
                /\ UNCHANGED <<registryVars, controlVars, pc, result>>
         ]_vars

\* A sweep is over that skipped a system whose service S is not installed and an
\* entity that lacks A, and invoked a system on another entity.
C22_Witness ==
    /\ sweep[1].phase = "done"
    /\ services["S"] = Absent
    /\ \E s \in DOMAIN systems : systems[s].svcs = {"S"}
    /\ \E s \in DOMAIN systems, e \in DOMAIN entities :
          /\ Visited(1, s) # {}
          /\ e \notin Visited(1, s)


\* C23: while one client thread is inside Run(), a Run() or a Dispatch() called by
\* another thread is rejected: the second thread neither enters the loop of Run()
\* nor starts a worker.
C23_NoSecondLoopWhileRunning ==
    [][\A c \in Callers :
          (\E d \in Callers \ {c} : pc[d].op \in RunOps) =>
              /\ ~RunEnter(c)
              /\ \A w \in Workers : ~DispatchSpawn(c, w)
      ]_vars


\* C26: a RequestStop() that returns true while a thread is inside Run(), the
\* moment before Run() sets its flag included, is honoured: that Run() starts no
\* sweep after it.
C26_TrueStopHonoured ==
    [][(lastStop.called /\ lastStop.ret /\ lastStop.active /\ pc[1].op \in RunOps)
          => ~RunSweep(1)
      ]_vars

\* C27: Run() returns only from the end of a sweep it has made, never without
\* having made one, whenever other threads call RequestStop().
C27_RunSweepsBeforeReturn ==
    [][RunReturn(1) => sweep[1].phase = "done"]_vars


\* C24: what a Sweep() does is a function of the state it starts in, when the
\* bodies are functions of the rows they are handed: the sequence of invocations
\* and the service row a sweep ends with are those WholeSweep gives for the state
\* at the call, whichever steps the sweep takes, and the sweep leaves the maps and
\* the flags as they were. Two engines in the same state therefore make the same
\* invocations in the same order and end in the same state.
C24_SweepDeterministic ==
    /\ [][/\ SweepCall(1) => RestOfSweep(sweep[1], services)' = WholeSweep(services)
          /\ SweepSteps(1) =>
                /\ RestOfSweep(sweep[1], services)' = RestOfSweep(sweep[1], services)
                /\ UNCHANGED <<catalogueVars, controlVars>>
         ]_vars
    /\ [](sweep[1].phase = "done" =>
             RestOfSweep(sweep[1], services) = [services |-> services, log |-> Log(1)])

\* A sweep is over in which a service action uninstalled S, a later one was skipped
\* for it, and a system that needs only the manager was invoked.
C24_Witness ==
    /\ sweep[1].phase = "done"
    /\ services["S"] = Absent
    /\ DOMAIN serviceActions = {0, 1}
    /\ serviceActions[0].body = UninstallS
    /\ serviceActions[1].svcs = {"S"}
    /\ Len(Log(1)) = 2
    /\ Log(1)[1] = <<0, 0, End>>
    /\ Log(1)[2][1] = 1


\* The sweep step being taken makes an invocation.
Invokes(th) == Len(sweep'[th].log) = Len(sweep[th].log) + 1

\* C25: a system is invoked on an entity only in a state in which the entity holds
\* every component the system requires and every service it requires is installed,
\* and a service action only when every service it requires is installed; when an
\* earlier invocation of the same pass has uninstalled a required service, the
\* system is not invoked on the next entity.
C25_InvokedOnlyWhenValid ==
    [][/\ (EntityStep(1) /\ Invokes(1)) =>
             /\ sweep[1].ent \in Holding(systems[sweep[1].sys].comps)
             /\ Installed(systems[sweep[1].sys].svcs)
       /\ (ServiceActionStep(1) /\ Invokes(1)) =>
             Installed(serviceActions[sweep[1].sa].svcs)
       /\ (EntityStep(1) /\ ~Installed(systems[sweep[1].sys].svcs)) =>
             /\ ~Invokes(1)
             /\ UNCHANGED <<registryVars, controlVars>>
      ]_vars

\* A system over {A} and {S} that uninstalls S was invoked on entity 0, and the
\* sweep has come to entity 1, which holds A too, with S gone: the system was not
\* invoked on it, std::bad_optional_access left the sweep.
C25_Witness ==
    /\ sweep[1].phase = "threw"
    /\ sweep[1].err = "bad_optional_access"
    /\ sweep[1].ent = 1
    /\ systems[sweep[1].sys].body = UninstallS
    /\ Log(1)[Len(Log(1))] = <<1, sweep[1].sys, 0>>
    /\ 1 \in Holding({"A"})
    /\ services["S"] = Absent


\* A member of the wrapper is missing.
IllFormed(wrapper) == wrapper.null # {}

\* C28: a wrapper with a missing invoker or validator is reported the first time a
\* sweep evaluates it: the step that comes to it raises IllFormedRegistration and
\* invokes nothing, the call of Sweep() returns that error, no sweep gets past such
\* a wrapper to its end, and no invocation of such a wrapper is ever made.
C28_IllFormedReported ==
    /\ [][/\ (SweepSteps(1) /\ sweep[1].phase = "sa"
                 /\ IllFormed(serviceActions[sweep[1].sa])) =>
                /\ sweep'[1].phase = "threw"
                /\ sweep'[1].err = "IllFormedRegistration"
                /\ sweep'[1].log = sweep[1].log
                /\ UNCHANGED <<registryVars, controlVars>>
          /\ (SweepSteps(1) /\ sweep[1].phase \in {"sys", "ent"}
                 /\ IllFormed(systems[sweep[1].sys])) =>
                /\ sweep'[1].phase = "threw"
                /\ sweep'[1].err = "IllFormedRegistration"
                /\ sweep'[1].log = sweep[1].log
                /\ UNCHANGED <<registryVars, controlVars>>
          /\ SweepCallThrows(1) => result'[1].res = "IllFormedRegistration"
         ]_vars
    /\ [](/\ \A x \in LogSet(1) :
                IF x[1] = 0 THEN ~IllFormed(serviceActions[x[2]])
                            ELSE ~IllFormed(systems[x[2]])
          /\ sweep[1].phase = "done" =>
                /\ \A a \in DOMAIN serviceActions : ~IllFormed(serviceActions[a])
                /\ \A s \in DOMAIN systems : ~IllFormed(systems[s]))

\* A call of Sweep() has returned IllFormedRegistration on an engine whose first
\* system is well formed and whose second lacks its component validator.
C28_Witness ==
    /\ Idle(1)
    /\ result[1].res = "IllFormedRegistration"
    /\ DOMAIN systems = {0, 1}
    /\ systems[0].null = {}
    /\ systems[1].null = {"componentValidator"}
    /\ \A a \in DOMAIN serviceActions : serviceActions[a].null = {}


\* C29: a sweep whose bodies remove entities and systems, the one being processed
\* included, stays well defined: it never breaks off, it is always at an entry that
\* is registered, it never goes back, and after the step on an entity it is at the
\* next entity that is left, in ID order, of the same system.
C29_RemovalSafeInSweep ==
    /\ [](/\ sweep[1].phase # "crashed"
          /\ sweep[1].phase \in {"sys", "ent"} => sweep[1].sys \in DOMAIN systems
          /\ sweep[1].phase = "ent" => sweep[1].ent \in DOMAIN entities
          /\ \A i, j \in 1..Len(Log(1)) : i < j => LogBefore(Log(1)[i], Log(1)[j]))
    /\ [][EntityStep(1) =>
             LET next == Succ(entities', sweep[1].ent)
             IN  IF next # End
                 THEN /\ sweep'[1].phase = "ent"
                      /\ sweep'[1].sys = sweep[1].sys
                      /\ sweep'[1].ent = next
                 ELSE sweep'[1].phase \in {"sys", "done"}
         ]_vars


\* The body of the system whose entity loop the sweep is in.
BodyAt(th) == systems[sweep[th].sys].body

\* C30: an entity added by a system's body during the system's entity loop gets an
\* ID above every entity's and the loop is afterwards still before it, so when the
\* sweep is over that system and every later system over {A} have been invoked on
\* it exactly once; a system registered by a body during the system loop gets an ID
\* above every system's, the loop is still before it, and when the sweep is over it
\* has been invoked on every entity that matches it.
C30_AddedInSweepIsVisited ==
    /\ [][/\ (EntityStep(1) /\ Invokes(1) /\ BodyAt(1).kind = "AddEntity"
                 /\ nextEntityID < MaxEntities) =>
                /\ DOMAIN entities' = DOMAIN entities \cup {nextEntityID}
                /\ \A e \in DOMAIN entities : e < nextEntityID
                /\ sweep'[1].phase = "ent"
                /\ sweep'[1].sys = sweep[1].sys
                /\ sweep[1].ent < sweep'[1].ent
                /\ sweep'[1].ent <= nextEntityID
          /\ (EntityStep(1) /\ Invokes(1) /\ BodyAt(1).kind = "AddSystem"
                 /\ nextSystemID < MaxSystems) =>
                /\ DOMAIN systems' = DOMAIN systems \cup {nextSystemID}
                /\ \A s \in DOMAIN systems : s < nextSystemID
                /\ sweep'[1].phase \in {"ent", "sys"}
                /\ sweep'[1].sys <= nextSystemID
         ]_vars
    /\ [](sweep[1].phase = "done" =>
             /\ \A e \in DOMAIN entities, s \in DOMAIN systems :
                   (entities[e]["A"] >= Tag(0) /\ Tag(s) >= entities[e]["A"]
                       /\ systems[s].comps = {"A"}) =>
                       Times(1, <<1, s, e>>) = 1
             /\ \A s \in DOMAIN systems :
                   systems[s] = AddedSystem =>
                       /\ Visited(1, s) = Holding({"B"})
                       /\ \A e \in Holding({"B"}) : Times(1, <<1, s, e>>) = 1)

\* A sweep is over in which system 0, invoked on entity 0, added entity 1 and was
\* then invoked on entity 1 too.
C30_Witness ==
    /\ sweep[1].phase = "done"
    /\ DOMAIN entities = {0, 1}
    /\ entities[1]["A"] = Tag(0)
    /\ entities[0]["A"] = 1
    /\ Len(Log(1)) >= 2
    /\ Log(1)[1] = <<1, 0, 0>>
    /\ Log(1)[2] = <<1, 0, 1>>

\* A sweep is over in which system 0 registered system 1, and system 1 was invoked
\* on an entity holding B.
C30_WitnessSystem ==
    /\ sweep[1].phase = "done"
    /\ DOMAIN systems = {0, 1}
    /\ systems[0].body = AddSystemBody
    /\ systems[1] = AddedSystem
    /\ \E e \in DOMAIN entities : <<1, 0, e>> \in LogSet(1) /\ <<1, 1, e>> \in LogSet(1)


\* ------------------------------------------------------------------ C31
\* The worker held by _mainLoop has seen the stop request and left its loop, and
\* nobody has joined it yet.
ExitedUnjoined(w) == worker[w].st = "done" /\ mainLoop = w

\* C31: after the dispatched worker has observed the stop request and left its loop,
\* and until AwaitStop() has joined it, the engine still counts as dispatched: a call
\* of Run() can only fail with AlreadyDispatched, a call of AwaitStop() is accepted
\* and its join returns without waiting, and a further RequestStop() answers false
\* and changes nothing.
C31_ExitedWorkerStillDispatched ==
    /\ [](\A w \in Workers : ExitedUnjoined(w) =>
            \A c \in Callers :
                /\ Idle(c) => /\ ENABLED RunRejected(c)
                              /\ ~ENABLED RunEnter(c)
                              /\ ENABLED AwaitStopEnter(c)
                              /\ ~ENABLED AwaitStopRejected(c)
                /\ (pc[c].op = "await_join" /\ pc[c].w = w) => ENABLED AwaitStopReturn(c))
    /\ [][\A w \in Workers : \A c \in Callers :
            (ExitedUnjoined(w) /\ CallRequestStop(c)) =>
                /\ lastStop'.called /\ ~lastStop'.ret
                /\ UNCHANGED <<localContinue, mainLoop, worker>>]_vars

\* A worker has exited and is not joined yet; in that interval a RequestStop() was
\* answered false, a Run() was rejected and an AwaitStop() is waiting in its join.
C31_Witness ==
    \E w \in Workers :
        /\ ExitedUnjoined(w)
        /\ lastStop.called /\ ~lastStop.ret
        /\ \E c \in Callers : result[c].res = "AlreadyDispatched"
        /\ \E c \in Callers : pc[c].op = "await_join" /\ pc[c].w = w


\* ------------------------------------------------------------------ C32
\* C32: once AwaitStop() has returned the engine is idle again: the handle is no
\* longer joinable, so the next AwaitStop() can only fail with NotDispatched and the
\* next Run() or Dispatch() is accepted; and the loop they start is a fresh one: Run()
\* arms _localContinue whatever the earlier stop left in it, the new worker starts
\* with a stop token nobody has signalled, and either loop ends only on a stop
\* request made after it was started.
C32_IdleAfterAwaitStop ==
    /\ [][AwaitStopReturn(1) => (~Joinable' /\ result'[1].res = "ok")]_vars
    /\ []((~Joinable /\ Idle(1)) =>
            /\ ENABLED AwaitStopRejected(1) /\ ~ENABLED AwaitStopEnter(1)
            /\ ENABLED RunEnter(1) /\ ~ENABLED RunRejected(1)
            /\ \A w \in Workers : worker[w].st = "unused" => ENABLED DispatchSpawn(1, w))
    /\ [][RunArm(1) => localContinue']_vars
    /\ [][RunReturn(1) => ~localContinue]_vars
    /\ [][\A w \in Workers :
            /\ DispatchSpawn(1, w) => worker'[w] = [st |-> "running", stop |-> FALSE]
            /\ WorkerExit(w) => worker[w].stop
            /\ (~worker[w].stop /\ worker'[w].stop) => (WorkerRunning(w) /\ mainLoop = w)]_vars
    /\ [][(pc[1].op = "run_loop" /\ localContinue /\ ~localContinue') =>
            (~Joinable /\ lastStop'.called /\ lastStop'.ret)]_vars

\* A worker was stopped and joined by AwaitStop(), and a later Run() is sweeping
\* with _localContinue armed again.
C32_Witness ==
    /\ \E w \in Workers : worker[w].st = "joined" /\ worker[w].stop
    /\ ~Joinable
    /\ pc[1].op = "run_loop" /\ localContinue /\ Sweeping(1)

\* The same after a second Dispatch(): the joined worker's token is signalled, the
\* new worker's is not, and the new worker is sweeping.
C32_WitnessDispatch ==
    \E w1, w2 \in Workers :
        /\ worker[w1].st = "joined" /\ worker[w1].stop
        /\ result[1].res = "ok" /\ Idle(1)
        /\ mainLoop = w2 /\ WorkerRunning(w2) /\ ~worker[w2].stop /\ Sweeping(w2)


\* ------------------------------------------------------------------ C33
\* C33: the registry operations change only what they name. InstallComponent and
\* UninstallComponent on (id, T) change at most the T slot of entity id;
\* AddEntity keeps every row there was and RemoveEntity every other row, and both
\* leave the services, the systems, the service actions and the other two counters
\* alone; InstallService and UninstallService on T change at most the T slot of
\* the services; adding or removing a system or a service action changes neither
\* the entities nor the services; and an operation that is rejected changes nothing.
\* (Each law reads: the frame is kept, or the step is not that operation.)
C33_RegistryFrames ==
    [][/\ \A id \in EntityIDs, t \in ComponentTypes :
            \/ /\ DOMAIN entities' = DOMAIN entities
               /\ OtherRowsKept(id)
               /\ id \in DOMAIN entities => OtherSlotsKept(id, t)
               /\ UNCHANGED <<systems, serviceActions, services, nextEntityID,
                              nextSystemID, nextServiceActionID>>
            \/ ~(InstallComponent(1, id, t, 1) \/ UninstallComponent(1, id, t))
       /\ \/ /\ \A k \in DOMAIN entities : k \in DOMAIN entities' /\ entities'[k] = entities[k]
             /\ UNCHANGED <<systems, serviceActions, services, nextSystemID,
                            nextServiceActionID>>
          \/ ~(\E given \in GivenOver({1}) : AddEntity(1, given))
       /\ \A id \in EntityIDs :
            \/ /\ DOMAIN entities' = DOMAIN entities \ {id}
               /\ OtherRowsKept(id)
               /\ UNCHANGED <<systems, serviceActions, services, nextEntityID,
                              nextSystemID, nextServiceActionID>>
            \/ ~RemoveEntity(1, id)
       /\ \A t \in ServiceTypes :
            \/ /\ \A u \in ServiceSlots \ {t} : services'[u] = services[u]
               /\ UNCHANGED <<entities, systems, serviceActions, nextEntityID,
                              nextSystemID, nextServiceActionID>>
            \/ ~(InstallService(1, t, 1) \/ UninstallService(1, t))
       /\ \/ UNCHANGED <<entities, services, serviceActions, nextEntityID,
                         nextServiceActionID>>
          \/ ~(AddSystem(1, {"A"}, {ManagerService}, Nop)
                  \/ \E id \in SystemIDs : RemoveSystem(1, id))
       /\ \/ UNCHANGED <<entities, services, systems, nextEntityID, nextSystemID>>
          \/ ~AddServiceAction(1, {"S"}, Nop)
       /\ \/ result'[1].res = "ok"
          \/ UNCHANGED registryVars
          \/ ~NextRegistry]_vars

\* Two entities holding components, both services installed, a system and a
\* service action registered, an entity removed before: every kind of operation has
\* acted, and the last one was rejected.
C33_Witness ==
    /\ \E id \in DOMAIN entities : \A t \in ComponentTypes : entities[id][t] # Absent
    /\ Cardinality(DOMAIN entities) < nextEntityID
    /\ \A t \in ServiceTypes : services[t] # Absent
    /\ systems # EmptyMap /\ serviceActions # EmptyMap
    /\ result[1].res \in {"AlreadyInstalled", "AlreadyUninstalled", "InvalidEntity", "InvalidSystem"}

Bool(b) == IF b THEN "true" ELSE "false"

\* C37: PushTexture and Commit act only while a draw frame is held: without one
\* PushTexture answers false and Commit does nothing, and neither changes the count
\* of pushed textures or the flag. A frame that is held stays held through every
\* AcquireDrawFrame and PushTexture, until Commit, which releases it and puts the
\* count back to 0. The count goes up by one with each PushTexture that answers
\* true and by nothing else, so it is the number of successful pushes since the
\* last Commit that acted (0 in a new window).
C37_DrawFrameProtocol ==
    /\ [](window.onDrawFrame \/ window.texturesPushed = 0)
    /\ [][/\ \A drawn \in BOOLEAN :
              PushTexture(1, drawn) =>
                 /\ ~window.onDrawFrame => (result'[1].res = "false" /\ UNCHANGED window)
                 /\ window'.onDrawFrame = window.onDrawFrame
                 /\ window'.texturesPushed =
                       window.texturesPushed + (IF result'[1].res = "true" THEN 1 ELSE 0)
                 /\ result'[1].res = "true" <=> (window.onDrawFrame /\ drawn)
          /\ \A now \in 0..(MaxTicks + 1) :
              /\ Commit(1, now) =>
                    /\ ~window.onDrawFrame => UNCHANGED window
                    /\ window.onDrawFrame =>
                          (~window'.onDrawFrame /\ window'.texturesPushed = 0)
              /\ AcquireDrawFrame(1, now) =>
                    /\ window.onDrawFrame => window'.onDrawFrame
                    /\ window'.texturesPushed = window.texturesPushed
                    /\ result'[1].res = Bool(window'.onDrawFrame)]_vars

\* A frame is held with two textures pushed, and the last push was refused by the
\* renderer.
C37_Witness ==
    /\ window.onDrawFrame
    /\ window.texturesPushed = 2
    /\ result[1].res = "false"
    /\ window.sinceCommit > 0


\* ------------------------------------------------------------------ C38
\* C38: a nickname names at most one texture and a load that fails leaves nothing
\* behind. LoadImage or LoadText under a nickname already assigned returns null and
\* leaves the store as it is; a load that returns null for any other reason leaves
\* the store as it is too, no slot stays reserved (no nickname ever maps to null),
\* GetTexture of that nickname keeps returning null and a load under it can succeed
\* right after; a load that succeeds returns a texture no nickname had, stores it
\* under the nickname and changes no other entry; GetTexture returns what is stored
\* under the nickname, null if nothing is.
C38_NicknamesUnique ==
    /\ [](\A n \in DOMAIN assets.textures : assets.textures[n] # Absent)
    /\ [][\A n \in Nicknames :
            /\ ((\E loaded \in BOOLEAN : LoadImage(1, n, loaded))
                    \/ (\E r \in {"no surface", "no texture", "ok"} : LoadText(1, n, r))) =>
                  /\ n \in DOMAIN assets.textures =>
                        (result'[1].res = "null" /\ UNCHANGED assets)
                  /\ result'[1].res \in {"null", "ok"}
                  /\ result'[1].res = "null" =>
                        /\ UNCHANGED assets
                        /\ n \notin DOMAIN assets.textures =>
                              /\ (ENABLED (GetTexture(1, n) /\ result'[1].res = "null"))'
                              /\ assets.made < MaxTextures =>
                                    (ENABLED (LoadImage(1, n, TRUE) /\ result'[1].res = "ok"))'
                  /\ result'[1].res = "ok" =>
                        /\ n \notin DOMAIN assets.textures
                        /\ \A m \in DOMAIN assets.textures :
                              assets.textures[m] # result'[1].id
                        /\ assets'.textures = Emplace(assets.textures, n, result'[1].id)
                        /\ (ENABLED (GetTexture(1, n) /\ result'[1] = result[1]))'
            /\ GetTexture(1, n) =>
                  /\ UNCHANGED assets
                  /\ result'[1] = IF n \in DOMAIN assets.textures
                                  THEN [res |-> "ok", id |-> assets.textures[n]]
                                  ELSE [res |-> "null", id |-> End]]_vars

\* An image is stored under "a" and no font is loaded; the last call, a load that
\* was refused or failed or a lookup of a free nickname, returned null, and "a"
\* still names the texture first stored, with no other slot left behind.
C38_Witness ==
    /\ assets.made = 1
    /\ DOMAIN assets.textures = {"a"}
    /\ assets.textures["a"] = 0
    /\ ~assets.font
    /\ result[1].res = "null"


\* ------------------------------------------------------------------ C35
\* The line ParseConfig is about to read, and the lines read so far whose first
\* token is a given one.
CurrentLine == parser.lines[parser.lineNum + 1]
ReadSoFar(token) == {i \in 1..parser.lineNum : parser.lines[i].first = token}

\* C35: ParseConfig enforces the order of the declarations. A second window line
\* and a second font line make it throw, as do a font line before any window line
\* and an entity line before the window or before the font; once it has thrown it
\* reads no further line and adds nothing. So whenever an entity is added, the line
\* being read is a well-formed entity line, and exactly one window line and exactly
\* one font line were read before it. A malformed entity line adds no entity and
\* the loop goes on to the next line.
C35_DeclarationOrder ==
    /\ [](parser.st = "threw" => (~ENABLED ParseLine(1) /\ ~ENABLED ParseReturn(1)))
    /\ [][ParseLine(1) =>
            /\ (CurrentLine.first = "window" /\ parser.windowParsed) => parser'.st = "threw"
            /\ (CurrentLine.first = "font" /\ (parser.fontParsed \/ ~parser.windowParsed)) =>
                  parser'.st = "threw"
            /\ (CurrentLine.first = "entity" /\ ~(parser.windowParsed /\ parser.fontParsed)) =>
                  parser'.st = "threw"
            /\ parser'.st = "threw" =>
                  (parser'.lineNum = parser.lineNum /\ UNCHANGED <<entities, nextEntityID>>)
            /\ entities' # entities =>
                  /\ CurrentLine = [first |-> "entity", rest |-> "ok"]
                  /\ Cardinality(ReadSoFar("window")) = 1
                  /\ Cardinality(ReadSoFar("font")) = 1
                  /\ Cardinality(DOMAIN entities') = Cardinality(DOMAIN entities) + 1
            /\ (CurrentLine = [first |-> "entity", rest |-> "bad"]
                    /\ parser.windowParsed /\ parser.fontParsed) =>
                  /\ UNCHANGED <<entities, nextEntityID>>
                  /\ parser'.st = "reading"
                  /\ parser'.lineNum = parser.lineNum + 1]_vars

\* ParseConfig has returned from a file of a window, a font, a malformed entity
\* line and a well-formed one: one entity was added, after the malformed line.
C35_Witness ==
    /\ parser.st = "returned"
    /\ Len(parser.lines) = 4
    /\ parser.lines[3] = [first |-> "entity", rest |-> "bad"]
    /\ parser.lines[4] = [first |-> "entity", rest |-> "ok"]
    /\ DOMAIN entities = {0}

\* ------------------------------------------------------------------ C36
\* C36: a line whose first token is none of window, font and entity, a line with
\* no token included, is skipped: the loop goes on to the next line, nothing is
\* thrown, and the flags, the window, the asset store and the engine stay as they
\* are, whatever the line before it was.
C36_OtherLinesSkipped ==
    [][(ParseLine(1) /\ CurrentLine.first \notin {"window", "font", "entity"}) =>
          /\ parser'.st = "reading"
          /\ parser'.lineNum = parser.lineNum + 1
          /\ parser'.windowParsed = parser.windowParsed
          /\ parser'.fontParsed = parser.fontParsed
          /\ UNCHANGED <<window, assets, registryVars>>]_vars

====
